---- MODULE Spec2Model ----
(***************************************************************************)
(* Verification model of wangle's SSLContextManager                         *)
(* (src/wangle/ssl/SSLContextManager.cpp): the SNI context index           *)
(* (SslContexts), the manager facade, the serverNameCallback dispatcher    *)
(* and the ticket-seed reload / harvest protocol.                          *)
(***************************************************************************)
EXTENDS Integers, Sequences, FiniteSets, TLC

(***************************************************************************)
(* Bounds                                                                  *)
(***************************************************************************)
\* number of ServerSSLContext objects that may be alive at the same time
MaxCtx == 2
\* number of SslContexts objects that may be alive at the same time
MaxIdx == 2

CtxIds == 1..MaxCtx
IdxIds == 1..MaxIdx
\* the empty shared_ptr
Null == 0

(***************************************************************************)
(* Domain names are sequences of characters.                               *)
(***************************************************************************)
N_ab == <<"a", ".", "b">>
N_cb == <<"c", ".", "b">>
N_wb == <<"*", ".", "b">>
N_dotb == <<".", "b">>
N_star == <<"*">>
N_bad == <<"a", "*">>
N_empty == <<>>

SHA1_SIGNATURE == "SHA1_SIGNATURE"
BEST_AVAILABLE == "BEST_AVAILABLE"
CertCrypto == {SHA1_SIGNATURE, BEST_AVAILABLE}

SSLContextKey(dn, crypto) == [dnString |-> dn, certCrypto |-> crypto]

Range(s) == {s[i] : i \in 1..Len(s)}

\* index of the first element of s equal to e (std::find); 0 when absent
RECURSIVE FindFrom(_, _, _)
FindFrom(s, e, i) ==
  IF i > Len(s) THEN 0
  ELSE IF s[i] = e THEN i
  ELSE FindFrom(s, e, i + 1)

Find(s, e) == FindFrom(s, e, 1)

\* vector::erase(it)
EraseAt(s, i) == SubSeq(s, 1, i - 1) \o SubSeq(s, i + 1, Len(s))

\* unordered_map::emplace / assignment through an iterator
MapPut(m, k, v) == [q \in (DOMAIN m) \cup {k} |-> IF q = k THEN v ELSE m[q]]

\* unordered_map::erase
MapErase(m, k) == [q \in (DOMAIN m) \ {k} |-> m[q]]

EmptyMap == [q \in {} |-> Null]

(***************************************************************************)
(* SslContexts: one index object                                           *)
(***************************************************************************)
NewSslContexts(strict) ==
  [ctxs_ |-> <<>>,
   defaultCtxKeys_ |-> <<>>,
   defaultCtxDomainName_ |-> N_empty,
   strict_ |-> strict,
   dnMap_ |-> EmptyMap]

\* a slot of the index heap that holds no object
NoIdx == [free |-> TRUE]

\* insertIntoDnMap with the erase of line 979 left out: a key taken over
\* from the default stays in defaultCtxKeys_
insertIntoDnMap_keepsDefaultKey(x, key, sslCtx, overwrite) ==
  LET v1 == key \in DOMAIN x.dnMap_
      v2 == Find(x.defaultCtxKeys_, key)
  IN IF ~v1 /\ v2 = 0
       THEN [x EXCEPT !.dnMap_ = MapPut(@, key, sslCtx)]
     ELSE IF v1
       THEN IF x.dnMap_[key] = sslCtx THEN x
            ELSE IF overwrite THEN [x EXCEPT !.dnMap_ = MapPut(@, key, sslCtx)]
            ELSE x
     ELSE IF overwrite
       THEN [x EXCEPT !.dnMap_ = MapPut(@, key, sslCtx)]
     ELSE x

\* insertIntoDnMap without the overwrite test of line 968: a key held by
\* another context is always replaced
insertIntoDnMap_alwaysReplaces(x, key, sslCtx, overwrite) ==
  LET v1 == key \in DOMAIN x.dnMap_
      v2 == Find(x.defaultCtxKeys_, key)
  IN IF ~v1 /\ v2 = 0
       THEN [x EXCEPT !.dnMap_ = MapPut(@, key, sslCtx)]
     ELSE IF v1
       THEN [x EXCEPT !.dnMap_ = MapPut(@, key, sslCtx)]
     ELSE IF overwrite
       THEN [x EXCEPT !.defaultCtxKeys_ = EraseAt(@, v2),
                      !.dnMap_ = MapPut(@, key, sslCtx)]
     ELSE x

insertIntoDnMap(x, key, sslCtx, overwrite) ==
  LET v1 == key \in DOMAIN x.dnMap_
      v2 == Find(x.defaultCtxKeys_, key)
  IN IF ~v1 /\ v2 = 0
       THEN [x EXCEPT !.dnMap_ = MapPut(@, key, sslCtx)]
     ELSE IF v1
       THEN IF x.dnMap_[key] = sslCtx THEN x
            ELSE IF overwrite THEN [x EXCEPT !.dnMap_ = MapPut(@, key, sslCtx)]
            ELSE x
     ELSE IF overwrite
       THEN [x EXCEPT !.defaultCtxKeys_ = EraseAt(@, v2),
                      !.dnMap_ = MapPut(@, key, sslCtx)]
     ELSE x

\* insertIntoDefaultKeys without the overwrite test of line 999: a key of
\* dnMap_ is always reassigned to the default
insertIntoDefaultKeys_alwaysReassigns(x, key, overwrite) ==
  LET v1 == key \in DOMAIN x.dnMap_
      v2 == Find(x.defaultCtxKeys_, key)
  IN IF ~v1 /\ v2 = 0
       THEN [x EXCEPT !.defaultCtxKeys_ = Append(@, key)]
     ELSE IF v1
       THEN [x EXCEPT !.dnMap_ = MapErase(@, key),
                      !.defaultCtxKeys_ = Append(@, key)]
     ELSE x

insertIntoDefaultKeys(x, key, overwrite) ==
  LET v1 == key \in DOMAIN x.dnMap_
      v2 == Find(x.defaultCtxKeys_, key)
  IN IF ~v1 /\ v2 = 0
       THEN [x EXCEPT !.defaultCtxKeys_ = Append(@, key)]
     ELSE IF v1
       THEN IF overwrite
              THEN [x EXCEPT !.dnMap_ = MapErase(@, key),
                             !.defaultCtxKeys_ = Append(@, key)]
            ELSE x
     ELSE x

\* strchr(dn_ptr, '*')
HasStar(dn) == \E i \in 1..Len(dn) : dn[i] = "*"

\* the checks of insertSSLCtxByDomainNameImpl without the strchr of lines
\* 919-922: only a leading '*' is looked at
ImplThrows_leadingStarOnly(dn) ==
  LET wild == Len(dn) > 2 /\ dn[1] = "*"
      stripped == IF wild /\ dn[2] = "." THEN Tail(dn) ELSE dn
  IN \/ wild /\ dn[2] # "."
     \/ Len(stripped) = 1 /\ stripped[1] = "."

\* the checks of insertSSLCtxByDomainNameImpl that throw std::runtime_error
ImplThrows(dn) ==
  LET wild == Len(dn) > 2 /\ dn[1] = "*"
      stripped == IF wild /\ dn[2] = "." THEN Tail(dn) ELSE dn
  IN \/ wild /\ dn[2] # "."
     \/ Len(stripped) = 1 /\ stripped[1] = "."
     \/ HasStar(stripped)

\* the DNString the name is stored under: a leading '*' of "*." is skipped
StoredName(dn) ==
  IF Len(dn) > 2 /\ dn[1] = "*" /\ dn[2] = "." THEN Tail(dn) ELSE dn

\* result of an operation that may throw: ok = FALSE when it threw; x is the
\* index as the operation left it
Res(ok, x) == [ok |-> ok, x |-> x]

\* insertSSLCtxByDomainNameImpl without lines 933-943: a SHA-1 certificate
\* gets no best-available key
insertSSLCtxByDomainNameImpl_noWeakKey(x, dn, sslCtx, certCrypto, defaultFallback) ==
  IF ImplThrows(dn) THEN Res(FALSE, x)
  ELSE
    LET mainKey == SSLContextKey(StoredName(dn), certCrypto)
    IN Res(TRUE, IF defaultFallback
                   THEN insertIntoDefaultKeys(x, mainKey, TRUE)
                   ELSE insertIntoDnMap(x, mainKey, sslCtx, TRUE))

insertSSLCtxByDomainNameImpl(x, dn, sslCtx, certCrypto, defaultFallback) ==
  IF ImplThrows(dn) THEN Res(FALSE, x)
  ELSE
    LET dnstr == StoredName(dn)
        mainKey == SSLContextKey(dnstr, certCrypto)
        weakKey == SSLContextKey(dnstr, BEST_AVAILABLE)
        \* lines 933-943, on the index x1 the main key's insertion left
        InsertWeak(x1) ==
          IF certCrypto # BEST_AVAILABLE
            THEN IF defaultFallback
                   THEN insertIntoDefaultKeys(x1, weakKey, FALSE)
                   ELSE insertIntoDnMap(x1, weakKey, sslCtx, FALSE)
            ELSE x1
    IN Res(TRUE, InsertWeak(IF defaultFallback
                              THEN insertIntoDefaultKeys(x, mainKey, TRUE)
                              ELSE insertIntoDnMap(x, mainKey, sslCtx, TRUE)))

\* insertSSLCtxByDomainName rethrowing whatever strict_ says
insertSSLCtxByDomainName_rethrows(x, dn, sslCtx, certCrypto, defaultFallback) ==
  LET Catch(r) == IF r.ok THEN r ELSE Res(FALSE, x)
  IN Catch(insertSSLCtxByDomainNameImpl(x, dn, sslCtx, certCrypto, defaultFallback))

insertSSLCtxByDomainName(x, dn, sslCtx, certCrypto, defaultFallback) ==
  LET \* the try / catch of lines 877-885 around the call's outcome r
      Catch(r) ==
        IF r.ok THEN r
        ELSE IF x.strict_ THEN Res(FALSE, x)
        ELSE Res(TRUE, x)
  IN Catch(insertSSLCtxByDomainNameImpl(x, dn, sslCtx, certCrypto, defaultFallback))


(***************************************************************************)
(* Certificates, configs, ticket seeds                                     *)
(***************************************************************************)
NID_sha1WithRSAEncryption == "sha1WithRSAEncryption"
NID_ecdsa_with_SHA1 == "ecdsa-with-SHA1"
NID_sha256WithRSAEncryption == "sha256WithRSAEncryption"

X509(cn, sans, sigAlg) == [cn |-> cn, sans |-> sans, sigAlg |-> sigAlg]

\* the signature-nid test of insert()
CertCryptoOf(sigAlg) ==
  IF sigAlg = NID_sha1WithRSAEncryption \/ sigAlg = NID_ecdsa_with_SHA1
    THEN SHA1_SIGNATURE
    ELSE BEST_AVAILABLE

SSLContextConfig(cert, isDefault, sessionTicketEnabled) ==
  [cert |-> cert, isDefault |-> isDefault,
   sessionTicketEnabled |-> sessionTicketEnabled]

TLSTicketKeySeeds(o, c, n) == [oldSeeds |-> o, currentSeeds |-> c, newSeeds |-> n]

\* a default-constructed TLSTicketKeySeeds
EmptySeeds == TLSTicketKeySeeds(<<>>, <<>>, <<>>)

\* the const TLSTicketKeySeeds* argument: nullptr or a pointer to seeds
NullSeeds == [null |-> TRUE, seeds |-> EmptySeeds]
SeedsPtr(s) == [null |-> FALSE, seeds |-> s]

\* ServerSSLContext::getTicketManager() of a context without a manager
NoTicketManager == [present |-> FALSE, seeds |-> EmptySeeds]

\* ServerSSLContext::setupTicketManager: a manager exists only when seeds
\* were handed in and the config enables session tickets
setupTicketManager(ticketSeeds, ctxConfig) ==
  IF ~ticketSeeds.null /\ ctxConfig.sessionTicketEnabled
    THEN [present |-> TRUE, seeds |-> ticketSeeds.seeds]
    ELSE NoTicketManager

\* TLSTicketKeyManager::setTLSTicketKeySeeds
setTLSTicketKeySeeds(tm, o, c, n) ==
  [tm EXCEPT !.seeds = TLSTicketKeySeeds(o, c, n)]

\* a slot of the context heap that holds no object
NoCtx == [free |-> TRUE]

\* std::make_shared<ServerSSLContext> followed by the certificate load and
\* setupTicketManager; no server-name callback is installed yet
NewServerSSLContext(ctxConfig, ticketSeeds) ==
  [cert |-> ctxConfig.cert,
   tm |-> setupTicketManager(ticketSeeds, ctxConfig),
   cbSet |-> FALSE, cbStats |-> FALSE, cbContexts |-> Null]

(***************************************************************************)
(* The heap: SslContexts objects and ServerSSLContext objects, addressed   *)
(* by the shared_ptrs the program holds.                                   *)
(***************************************************************************)
World(idxH, ctxH) == [idx |-> idxH, ctx |-> ctxH]

IsFreeCtx(ctxH, c) == ctxH[c] = NoCtx
IsFreeIdx(idxH, i) == idxH[i] = NoIdx

HasFreeCtx(ctxH) == \E c \in CtxIds : IsFreeCtx(ctxH, c)
FreshCtx(ctxH) == CHOOSE c \in CtxIds :
                    IsFreeCtx(ctxH, c) /\ \A d \in CtxIds : d < c => ~IsFreeCtx(ctxH, d)
HasFreeIdx(idxH) == \E i \in IdxIds : IsFreeIdx(idxH, i)
FreshIdx(idxH) == CHOOSE i \in IdxIds :
                    IsFreeIdx(idxH, i) /\ \A j \in IdxIds : j < i => ~IsFreeIdx(idxH, j)

\* the contexts an index holds a shared_ptr to
CtxsHeldBy(x) == Range(x.ctxs_) \cup {x.dnMap_[k] : k \in DOMAIN x.dnMap_}

\* objects kept alive by the given roots (shared_ptr ownership: an index owns
\* its contexts, a context's server-name callback owns the captured index)
RECURSIVE Reach(_, _, _)
Reach(w, I, C) ==
  LET I2 == I \cup ({w.ctx[c].cbContexts : c \in C} \ {Null})
      C2 == C \cup UNION {CtxsHeldBy(w.idx[i]) : i \in I2}
  IN IF I2 = I /\ C2 = C THEN [idx |-> I, ctx |-> C] ELSE Reach(w, I2, C2)

\* destruction of every object whose last shared_ptr is gone
Release(w, rootIdx, rootCtx) ==
  LET Keep(r) ==
        World([i \in IdxIds |-> IF i \in r.idx THEN w.idx[i] ELSE NoIdx],
              [c \in CtxIds |-> IF c \in r.ctx THEN w.ctx[c] ELSE NoCtx])
  IN Keep(Reach(w, rootIdx \ {Null}, rootCtx \ {Null}))

(***************************************************************************)
(* SslContexts::insert and addSSLContextConfig                             *)
(***************************************************************************)
\* SslContexts::addServerContext
addServerContext(x, sslCtx) == [x EXCEPT !.ctxs_ = Append(@, sslCtx)]

\* the CN followed by the subject alternative names, in insertion order
NamesOf(cert) == <<cert.cn>> \o cert.sans

\* the insertSSLCtxByDomainName calls of insert(), names[i..]; stops at the
\* first call that throws and leaves the index as the earlier calls made it
RECURSIVE insertNames(_, _, _, _, _, _)
insertNames(x, names, i, sslCtx, certCrypto, defaultFallback) ==
  IF i > Len(names) THEN Res(TRUE, x)
  ELSE LET Rest(r) ==
             IF ~r.ok THEN Res(FALSE, r.x)
             ELSE insertNames(r.x, names, i + 1, sslCtx, certCrypto, defaultFallback)
       IN Rest(insertSSLCtxByDomainName(x, names[i], sslCtx, certCrypto,
                                        defaultFallback))

IsStarCN(cn) == Len(cn) = 1 /\ cn[1] = "*"

insert(x, sslCtx, cert, defaultFallback) ==
  IF IsStarCN(cert.cn)
    THEN IF ~defaultFallback THEN Res(FALSE, x) ELSE Res(TRUE, x)
  ELSE
    LET certCrypto == CertCryptoOf(cert.sigAlg)
        \* lines 865-869, after the insertions by name left r
        Finish(r) ==
          IF ~r.ok THEN r
          ELSE IF defaultFallback
            THEN Res(TRUE, [r.x EXCEPT !.defaultCtxDomainName_ = cert.cn])
          ELSE Res(TRUE, addServerContext(r.x, sslCtx))
    IN Finish(insertNames(x, NamesOf(cert), 1, sslCtx, certCrypto, defaultFallback))

\* the SNI part of ctxSetupByOpensslFeature: a default config claims the
\* newDefault slot and gets a server-name callback that captures the stats
\* sink and shared_from_this()
\* ctxSetupByOpensslFeature without the throw of lines 775-777: a second
\* default config takes the slot over
ctxSetupByOpensslFeature_replacesDefault(rec, sslCtx, ctxConfig, stats, newDefault, this) ==
  IF ctxConfig.isDefault
    THEN [ok |-> TRUE,
          rec |-> [rec EXCEPT !.cbSet = TRUE, !.cbStats = stats,
                              !.cbContexts = this],
          newDefault |-> sslCtx]
    ELSE [ok |-> TRUE, rec |-> rec, newDefault |-> newDefault]

ctxSetupByOpensslFeature(rec, sslCtx, ctxConfig, stats, newDefault, this) ==
  IF ctxConfig.isDefault
    THEN IF newDefault # Null
           THEN [ok |-> FALSE, rec |-> rec, newDefault |-> newDefault]
           ELSE [ok |-> TRUE,
                 rec |-> [rec EXCEPT !.cbSet = TRUE, !.cbStats = stats,
                                     !.cbContexts = this],
                 newDefault |-> sslCtx]
    ELSE [ok |-> TRUE, rec |-> rec, newDefault |-> newDefault]

\* SslContexts::addSSLContextConfig on the index object `this` of world w
SslContexts_addSSLContextConfig(w, this, ctxConfig, ticketSeeds, stats, newDefault) ==
  LET sslCtx == FreshCtx(w.ctx)
      \* lines 514-521: the outcome r of insert(), with the context as the
      \* feature setup s left it
      Inserted(s, r) ==
        [ok |-> r.ok,
         w |-> World([w.idx EXCEPT ![this] = r.x],
                     [w.ctx EXCEPT ![sslCtx] = s.rec]),
         newDefault |-> s.newDefault]
      \* lines 511-521, after the feature setup returned or threw
      Setup(s) ==
        IF ~s.ok
          THEN [ok |-> FALSE, w |-> w, newDefault |-> newDefault]
          ELSE Inserted(s, insert(w.idx[this], sslCtx, ctxConfig.cert,
                                  ctxConfig.isDefault))
  IN Setup(ctxSetupByOpensslFeature(NewServerSSLContext(ctxConfig, ticketSeeds),
                                    sslCtx, ctxConfig, stats, newDefault, this))

(***************************************************************************)
(* Removal                                                                 *)
(***************************************************************************)
\* the crypto tier of an SSLContextKey built from a name alone
DefaultKeyCrypto == BEST_AVAILABLE

\* outcome of a removal: ok = FALSE when std::invalid_argument was thrown,
\* fatal = TRUE when the CHECK failed and the process aborted
RemoveRes(ok, fatal, x) == [ok |-> ok, fatal |-> fatal, x |-> x]

\* removeSSLContextConfig without the default-key test of lines 409-416
removeSSLContextConfig_noDefaultCheck(x, key) ==
  IF key \in DOMAIN x.dnMap_
    THEN LET vIt == Find(x.ctxs_, x.dnMap_[key])
         IN IF vIt = 0 THEN RemoveRes(FALSE, TRUE, x)
            ELSE RemoveRes(TRUE, FALSE,
                           [x EXCEPT !.ctxs_ = EraseAt(@, vIt),
                                     !.dnMap_ = MapErase(@, key)])
  ELSE RemoveRes(TRUE, FALSE, x)

removeSSLContextConfig(x, key) ==
  IF Find(x.defaultCtxKeys_, key) # 0 THEN RemoveRes(FALSE, FALSE, x)
  ELSE IF key \in DOMAIN x.dnMap_
    THEN LET vIt == Find(x.ctxs_, x.dnMap_[key])
         IN IF vIt = 0 THEN RemoveRes(FALSE, TRUE, x)
            ELSE RemoveRes(TRUE, FALSE,
                           [x EXCEPT !.ctxs_ = EraseAt(@, vIt),
                                     !.dnMap_ = MapErase(@, key)])
  ELSE RemoveRes(TRUE, FALSE, x)

\* the key removeSSLContextConfigByDomainName forms from a domain name
DomainNameKey(domainName) ==
  LET dn == IF Len(domainName) >= 2 /\ domainName[1] = "*" /\ domainName[2] = "."
              THEN Tail(domainName) ELSE domainName
  IN SSLContextKey(dn, DefaultKeyCrypto)

removeSSLContextConfigByDomainName(x, domainName) ==
  removeSSLContextConfig(x, DomainNameKey(domainName))

\* SslContexts::clear
clear(x) == [x EXCEPT !.ctxs_ = <<>>, !.defaultCtxKeys_ = <<>>, !.dnMap_ = EmptyMap]

(***************************************************************************)
(* Lookups                                                                 *)
(***************************************************************************)
\* dnString.find_first_of("."); 0 stands for npos
FirstDot(dn) == Find(dn, ".")

\* DNString(key.dnString, dot): the name from its first dot on
SuffixKey(key) ==
  SSLContextKey(SubSeq(key.dnString, FirstDot(key.dnString), Len(key.dnString)),
                key.certCrypto)

isDefaultCtxExact(x, key) == Find(x.defaultCtxKeys_, key) # 0

isDefaultCtxSuffix(x, key) ==
  IF FirstDot(key.dnString) # 0 THEN isDefaultCtxExact(x, SuffixKey(key)) ELSE FALSE

isDefaultCtx(x, key) == isDefaultCtxExact(x, key) \/ isDefaultCtxSuffix(x, key)

getSSLCtxByExactDomain(x, key) ==
  IF key \in DOMAIN x.dnMap_ THEN x.dnMap_[key] ELSE Null

\* getSSLCtxBySuffix cutting the name at its last dot instead of its first
getSSLCtxBySuffix_lastDot(x, key) ==
  LET dots == {i \in 1..Len(key.dnString) : key.dnString[i] = "."}
      dot == CHOOSE i \in dots : \A j \in dots : j <= i
      suffixKey == SSLContextKey(SubSeq(key.dnString, dot, Len(key.dnString)),
                                 key.certCrypto)
  IN IF dots # {} /\ suffixKey \in DOMAIN x.dnMap_
       THEN x.dnMap_[suffixKey]
       ELSE Null

getSSLCtxBySuffix(x, key) ==
  IF FirstDot(key.dnString) # 0 /\ SuffixKey(key) \in DOMAIN x.dnMap_
    THEN x.dnMap_[SuffixKey(key)]
    ELSE Null

getSSLCtx(x, key) ==
  LET ctx == getSSLCtxByExactDomain(x, key)
  IN IF ctx # Null THEN ctx ELSE getSSLCtxBySuffix(x, key)

(***************************************************************************)
(* serverNameCallback                                                      *)
(***************************************************************************)
SERVER_NAME_FOUND == "SERVER_NAME_FOUND"
SERVER_NAME_NOT_FOUND == "SERVER_NAME_NOT_FOUND"

\* SSL_get_servername: NULL or the host name of the ClientHello
NoServerName == [present |-> FALSE, name |-> N_empty]
ServerName(dn) == [present |-> TRUE, name |-> dn]

\* AsyncSSLSocket::getClientHelloInfo: nullptr or the parsed hello
NoClientHelloInfo ==
  [present |-> FALSE, clientHelloSigAlgs_ |-> <<>>, clientHelloExtensions_ |-> <<>>]
ClientHelloInfo(sigAlgs, extensions) ==
  [present |-> TRUE, clientHelloSigAlgs_ |-> sigAlgs,
   clientHelloExtensions_ |-> extensions]

\* the requested tier, lines 661-682
CertCryptoReq(clientInfo) ==
  IF ~clientInfo.present THEN BEST_AVAILABLE
  ELSE IF \/ \E i \in 1..Len(clientInfo.clientHelloSigAlgs_) :
                clientInfo.clientHelloSigAlgs_[i][1] = "SHA256"
          \/ Find(clientInfo.clientHelloExtensions_, "SERVER_NAME") # 0
    THEN BEST_AVAILABLE
  ELSE SHA1_SIGNATURE

\* calls made on the ClientHelloExtStats sink, each a tuple of the method and
\* its arguments; none when the sink is nullptr
Record(stats, events) == IF stats THEN events ELSE <<>>

CallbackResult(ret, switched, events) ==
  [ret |-> ret, switched |-> switched, events |-> events]

\* serverNameCallback trying the best-available key before the requested
\* one when the client asked for SHA-1
serverNameCallback_upgradeFirst(x, stats, sn, clientInfo) ==
  LET reqHasServerName == sn.present
      absent == IF ~sn.present THEN << <<"AbsentHostname">> >> ELSE <<>>
      dnstr == IF sn.present THEN sn.name ELSE x.defaultCtxDomainName_
      certCryptoReq == CertCryptoReq(clientInfo)
      match == IF reqHasServerName THEN << <<"Match">> >> ELSE <<>>
      key == SSLContextKey(dnstr, certCryptoReq)
      ctx == getSSLCtx(x, key)
      fallbackKey == SSLContextKey(dnstr, BEST_AVAILABLE)
      fctx == getSSLCtx(x, fallbackKey)
  IN IF certCryptoReq # BEST_AVAILABLE
        /\ (fctx # Null \/ isDefaultCtx(x, fallbackKey))
       THEN CallbackResult(SERVER_NAME_FOUND, fctx,
              Record(stats, absent \o match
                            \o << <<"CertCrypto", certCryptoReq, BEST_AVAILABLE>> >>))
     ELSE IF ctx # Null \/ isDefaultCtx(x, key)
       THEN CallbackResult(SERVER_NAME_FOUND, ctx,
              Record(stats, absent \o match
                            \o << <<"CertCrypto", certCryptoReq, certCryptoReq>> >>))
     ELSE CallbackResult(SERVER_NAME_NOT_FOUND, Null,
              Record(stats, absent
                            \o (IF reqHasServerName THEN << <<"NotMatch">> >> ELSE <<>>)))

\* serverNameCallback calling recordMatch() on every found path, whether or
\* not the hello carried a server name
serverNameCallback_alwaysMatch(x, stats, sn, clientInfo) ==
  LET reqHasServerName == sn.present
      absent == IF ~sn.present THEN << <<"AbsentHostname">> >> ELSE <<>>
      dnstr == IF sn.present THEN sn.name ELSE x.defaultCtxDomainName_
      certCryptoReq == CertCryptoReq(clientInfo)
      key == SSLContextKey(dnstr, certCryptoReq)
      ctx == getSSLCtx(x, key)
      fallbackKey == SSLContextKey(dnstr, BEST_AVAILABLE)
      fctx == getSSLCtx(x, fallbackKey)
  IN IF ctx # Null \/ isDefaultCtx(x, key)
       THEN CallbackResult(SERVER_NAME_FOUND, ctx,
              Record(stats, absent \o << <<"Match">> >>
                            \o << <<"CertCrypto", certCryptoReq, certCryptoReq>> >>))
     ELSE IF certCryptoReq # BEST_AVAILABLE
             /\ (fctx # Null \/ isDefaultCtx(x, fallbackKey))
       THEN CallbackResult(SERVER_NAME_FOUND, fctx,
              Record(stats, absent \o << <<"Match">> >>
                            \o << <<"CertCrypto", certCryptoReq, BEST_AVAILABLE>> >>))
     ELSE CallbackResult(SERVER_NAME_NOT_FOUND, Null,
              Record(stats, absent
                            \o (IF reqHasServerName THEN << <<"NotMatch">> >> ELSE <<>>)))

\* serverNameCallback(ssl, stats, contexts): x is the captured index; the
\* result names the return value, the context handed to
\* switchServerSSLContext (Null when none) and the stats calls
serverNameCallback(x, stats, sn, clientInfo) ==
  LET reqHasServerName == sn.present
      absent == IF ~sn.present THEN << <<"AbsentHostname">> >> ELSE <<>>
      dnstr == IF sn.present THEN sn.name ELSE x.defaultCtxDomainName_
      certCryptoReq == CertCryptoReq(clientInfo)
      match == IF reqHasServerName THEN << <<"Match">> >> ELSE <<>>
      key == SSLContextKey(dnstr, certCryptoReq)
      ctx == getSSLCtx(x, key)
      fallbackKey == SSLContextKey(dnstr, BEST_AVAILABLE)
      fctx == getSSLCtx(x, fallbackKey)
  IN IF ctx # Null \/ isDefaultCtx(x, key)
       THEN CallbackResult(SERVER_NAME_FOUND, ctx,
              Record(stats, absent \o match
                            \o << <<"CertCrypto", certCryptoReq, certCryptoReq>> >>))
     ELSE IF certCryptoReq # BEST_AVAILABLE
             /\ (fctx # Null \/ isDefaultCtx(x, fallbackKey))
       THEN CallbackResult(SERVER_NAME_FOUND, fctx,
              Record(stats, absent \o match
                            \o << <<"CertCrypto", certCryptoReq, BEST_AVAILABLE>> >>))
     ELSE CallbackResult(SERVER_NAME_NOT_FOUND, Null,
              Record(stats, absent
                            \o (IF reqHasServerName THEN << <<"NotMatch">> >> ELSE <<>>)))

(***************************************************************************)
(* Ticket seeds                                                            *)
(***************************************************************************)
\* SslContexts::getTicketKeys: the seeds of the first context in ctxs_ that
\* has a ticket manager
RECURSIVE getTicketKeysFrom(_, _, _)
getTicketKeysFrom(w, ctxs, i) ==
  IF i > Len(ctxs) THEN EmptySeeds
  ELSE IF w.ctx[ctxs[i]].tm.present THEN w.ctx[ctxs[i]].tm.seeds
  ELSE getTicketKeysFrom(w, ctxs, i + 1)

getTicketKeys(w, this) == getTicketKeysFrom(w, w.idx[this].ctxs_, 1)

\* SslContexts::reloadTLSTicketKeys: every context of ctxs_ with a manager
SslContexts_reloadTLSTicketKeys(w, this, o, c, n) ==
  [w EXCEPT !.ctx =
     [q \in CtxIds |->
        IF q \in Range(w.idx[this].ctxs_) /\ w.ctx[q].tm.present
          THEN [w.ctx[q] EXCEPT !.tm = setTLSTicketKeySeeds(@, o, c, n)]
          ELSE w.ctx[q]]]

\* SSLContextManager::reloadTLSTicketKeys: the index, then the default
reloadTLSTicketKeys(w, contexts, defaultCtx, o, c, n) ==
  LET Default(w1) ==
        IF defaultCtx # Null /\ w1.ctx[defaultCtx].tm.present
          THEN [w1 EXCEPT !.ctx[defaultCtx].tm = setTLSTicketKeySeeds(@, o, c, n)]
          ELSE w1
  IN Default(SslContexts_reloadTLSTicketKeys(w, contexts, o, c, n))

(***************************************************************************)
(* resetSSLContextConfigs                                                  *)
(***************************************************************************)
\* the loop of lines 380-389 over ctxConfigs[i..] on the new index object;
\* an exception of addSSLContextConfig ends it
RECURSIVE addConfigs(_, _, _, _, _, _, _)
addConfigs(w, contexts, ctxConfigs, i, ticketSeeds, stats, defaultCtx) ==
  IF i > Len(ctxConfigs)
    THEN [ok |-> TRUE, w |-> w, newDefault |-> defaultCtx]
  ELSE LET Rest(r) ==
             IF ~r.ok THEN r
             ELSE addConfigs(r.w, contexts, ctxConfigs, i + 1, ticketSeeds, stats,
                             r.newDefault)
       IN Rest(SslContexts_addSSLContextConfig(w, contexts, ctxConfigs[i],
                                               ticketSeeds, stats, defaultCtx))

\* lines 373-378: the seeds handed to every new context
ResetSeeds(w, liveContexts, ticketSeeds) ==
  IF ticketSeeds.null THEN SeedsPtr(getTicketKeys(w, liveContexts)) ELSE ticketSeeds

\* resetBuild that builds into the live index instead of a new one
resetBuild_inLiveIndex(w, liveContexts, strict, ctxConfigs, ticketSeeds, stats) ==
  LET Built(r) ==
        [ok |-> r.ok, w |-> r.w, contexts |-> liveContexts,
         defaultCtx |-> r.newDefault]
  IN Built(addConfigs(w, liveContexts, ctxConfigs, 1,
                      ResetSeeds(w, liveContexts, ticketSeeds), stats, Null))

\* lines 373-389: create the new index and build every config into it
resetBuild(w, liveContexts, strict, ctxConfigs, ticketSeeds, stats) ==
  LET contexts == FreshIdx(w.idx)
      w0 == [w EXCEPT !.idx[contexts] = NewSslContexts(strict)]
      Built(r) ==
        [ok |-> r.ok, w |-> r.w, contexts |-> contexts, defaultCtx |-> r.newDefault]
  IN Built(addConfigs(w0, contexts, ctxConfigs, 1,
                      ResetSeeds(w, liveContexts, ticketSeeds), stats, Null))

(***************************************************************************)
(* ThreadedExecutor: one thread per task; a control thread launches the    *)
(* threads of the enqueued tasks and joins the threads that finished       *)
(***************************************************************************)
\* tasks that can be added to the executor
MaxTasks == 2
Tasks == 1..MaxTasks

\* the executor after construction: nothing enqueued, the control thread
\* waiting for a notification, the destructor not called. A task is "new"
\* (not added), "enqueued", "running" (its thread is launched), "ran" (its
\* function has returned), "finished" (its thread has reported) or "joined"
NewThreadedExecutor ==
  [stopping_ |-> FALSE,
   controls_ |-> FALSE,
   enqueued_ |-> <<>>,
   running_ |-> {},
   finished_ |-> <<>>,
   control |-> [pc |-> "wait", stopping |-> FALSE],
   task |-> [t \in Tasks |-> "new"],
   dtor |-> "none"]

\* the control loop going on although threads are running once the
\* executor is stopping
controlLoops_ignoresRunning(stopping, running) == ~stopping

\* whether the control loop goes on after a pass: until the executor is
\* stopping and no thread is running
controlLoops(stopping, running) == ~stopping \/ running # {}

\* ThreadedExecutor::add on the executor ex: the task is enqueued and the
\* control thread notified
ThreadedExecutor_add(ex, t) ==
  [ex EXCEPT !.enqueued_ = Append(@, t), !.task[t] = "enqueued", !.controls_ = TRUE]

\* the thread of a task has run the task's function to its end
ThreadedExecutor_work(ex, t) == [ex EXCEPT !.task[t] = "ran"]

(***************************************************************************)
(* FutureExecutor: promises and the functions handed to addFuture          *)
(***************************************************************************)
\* folly::Try<T>: a value or an exception; a promise not fulfilled yet
TryValue(v) == [kind |-> "value", what |-> v]
TryException(e) == [kind |-> "exception", what |-> e]
Unfulfilled == [kind |-> "none", what |-> "none"]

\* what the future of a promise destroyed without a result is fulfilled with
BrokenPromise == TryException("BrokenPromise")

\* a function that returns a non-Future value, or throws
ValueFunc(outcome) ==
  [overload |-> "value", outcome |-> outcome, inner |-> Unfulfilled, ready |-> FALSE]

\* a function that returns a Future, which completes with `inner`, before
\* the function returns (ready) or later; or that throws instead (outcome
\* is then the exception)
FutureFunc(inner, ready) ==
  [overload |-> "future", outcome |-> TryValue("future"), inner |-> inner, ready |-> ready]
ThrowingFutureFunc(e) ==
  [overload |-> "future", outcome |-> TryException(e), inner |-> Unfulfilled, ready |-> FALSE]

\* the promise of one addFuture call: the function, the state of the
\* returned future, how often the promise was fulfilled, the inner future
\* ("none", "pending" or "done") and whether the function has been run
NoSlot ==
  [func |-> ValueFunc(Unfulfilled), promise |-> Unfulfilled, sets |-> 0,
   inner |-> "none", ran |-> FALSE, added |-> FALSE]

\* no addFuture call made; terminated: an exception left a thread and
\* std::terminate ended the process
NoFutures == [slot |-> [t \in Tasks |-> NoSlot], terminated |-> FALSE]

\* Promise::setTry / setWith: the future becomes ready with t
Fulfil(slot, try) == [slot EXCEPT !.promise = try, !.sets = @ + 1]

(***************************************************************************)
(* SSLContextManager: state                                                *)
(***************************************************************************)
VARIABLES
  idx,                       \* heap of SslContexts objects
  ctx,                       \* heap of ServerSSLContext objects
  contexts_,                 \* SSLContextManager::contexts_
  defaultCtx_,               \* SSLContextManager::defaultCtx_
  strict_,                   \* SSLContextManager::strict_
  clientHelloTLSExtStats_,   \* SSLContextManager::clientHelloTLSExtStats_ (set or nullptr)
  proc,                      \* calls in progress on other threads, and their locals
  last,                      \* the call that completed last and its outcome
  executor,                  \* a ThreadedExecutor, its threads and its tasks
  futures                    \* the promises FutureExecutor::addFuture created

vars == <<idx, ctx, contexts_, defaultCtx_, strict_, clientHelloTLSExtStats_,
          proc, last, executor, futures>>

\* op: the call; arg: its arguments; ok: FALSE when it threw; fatal: TRUE
\* when a CHECK aborted the process; keys: the keys an insertion installed;
\* out: what the call returned
Last(op, arg, ok, fatal, keys, out) ==
  [op |-> op, arg |-> arg, ok |-> ok, fatal |-> fatal, keys |-> keys, out |-> out]

\* the keys insertSSLCtxByDomainNameImpl installs for one name
KeysOfName(dn, certCrypto) ==
  IF ImplThrows(dn) THEN {}
  ELSE {SSLContextKey(StoredName(dn), certCrypto)}
       \cup (IF certCrypto # BEST_AVAILABLE
               THEN {SSLContextKey(StoredName(dn), BEST_AVAILABLE)} ELSE {})

\* the keys insert() installs for names[i..]; in strict mode the first
\* rejected name ends the insertion
RECURSIVE KeysOfNames(_, _, _, _)
KeysOfNames(names, i, certCrypto, strict) ==
  IF i > Len(names) THEN {}
  ELSE IF ImplThrows(names[i]) /\ strict THEN {}
  ELSE KeysOfName(names[i], certCrypto)
       \cup KeysOfNames(names, i + 1, certCrypto, strict)

KeysOfCert(cert, strict) ==
  IF IsStarCN(cert.cn) THEN {}
  ELSE KeysOfNames(NamesOf(cert), 1, CertCryptoOf(cert.sigAlg), strict)

\* resetSSLContextConfigs in progress: pc is the line reached, the rest are
\* its arguments and locals (contexts, defaultCtx, the seeds handed on)
ResetIdle ==
  [pc |-> "idle", ctxConfigs |-> <<>>, ticketSeeds |-> NullSeeds,
   seeds |-> NullSeeds, contexts |-> Null, defaultCtx |-> Null]

\* reloadTLSTicketKeys in progress
ReloadIdle == [pc |-> "idle", seeds |-> EmptySeeds]

\* SSLContextManager::getSSLCtx in progress; expect is the set of answers a
\* complete (index, default) pair could have given since the call began
ReadIdle == [pc |-> "idle", key |-> <<>>, isDefault |-> FALSE, expect |-> {}]

\* a connection between accept and its ClientHello; ctx is the context it
\* was accepted with, pairs the complete (index, default) pairs since then
ConnIdle == [pc |-> "idle", ctx |-> Null, pairs |-> {}]

\* addSSLContextConfig in progress between two of its insertions: the
\* index it was called on, the context it built, and the position i in the
\* cert's names of the next insertSSLCtxByDomainName
AddIdle ==
  [pc |-> "idle", ctxConfig |-> SSLContextConfig(X509(N_empty, <<>>, "none"), FALSE, FALSE),
   ticketSeeds |-> NullSeeds, contexts |-> Null, sslCtx |-> Null, i |-> 0]

\* what has completed since the last add: a seedless reset, a reload and
\* the seeds of the most recent reload
NothingDone == [reset |-> FALSE, reload |-> FALSE, seeds |-> EmptySeeds]

ProcIdle ==
  [rs |-> ResetIdle, rl |-> ReloadIdle, rd |-> ReadIdle, hs |-> ConnIdle,
   ad |-> AddIdle, done |-> NothingDone]

Running == ~last.fatal

\* no call is in progress on another thread
Quiescent ==
  /\ Running
  /\ proc.rs.pc = "idle" /\ proc.rl.pc = "idle"
  /\ proc.rd.pc = "idle" /\ proc.hs.pc = "idle"
  /\ proc.ad.pc = "idle"

TheWorld == World(idx, ctx)

Init ==
  /\ strict_ \in BOOLEAN
  /\ idx = [i \in IdxIds |-> IF i = 1 THEN NewSslContexts(strict_) ELSE NoIdx]
  /\ ctx = [c \in CtxIds |-> NoCtx]
  /\ contexts_ = 1
  /\ defaultCtx_ = Null
  /\ clientHelloTLSExtStats_ = FALSE
  /\ proc = ProcIdle
  /\ last = Last("init", <<>>, TRUE, FALSE, {}, <<>>)
  /\ executor = NewThreadedExecutor
  /\ futures = NoFutures

(***************************************************************************)
(* SSLContextManager: control-plane calls                                  *)
(***************************************************************************)
\* SSLContextManager::addSSLContextConfig
AddSSLContextConfig(ctxConfig, ticketSeeds) ==
  /\ Quiescent
  /\ HasFreeCtx(ctx)
  /\ \E r \in {SslContexts_addSSLContextConfig(TheWorld, contexts_, ctxConfig,
                    ticketSeeds, clientHelloTLSExtStats_, defaultCtx_)} :
     \E w \in {Release(r.w, {contexts_}, {r.newDefault})} :
        /\ idx' = w.idx
        /\ ctx' = w.ctx
        /\ defaultCtx_' = r.newDefault
        /\ last' = Last("add", <<ctxConfig, ticketSeeds>>, r.ok, FALSE,
                        IF ctxConfig.isDefault /\ defaultCtx_ # Null THEN {}
                        ELSE KeysOfCert(ctxConfig.cert, strict_),
                        <<>>)
  /\ proc' = [proc EXCEPT !.done = NothingDone]
  /\ UNCHANGED <<contexts_, strict_, executor, futures, clientHelloTLSExtStats_>>

\* SSLContextManager::insertSSLCtxByDomainName
InsertSSLCtxByDomainName(dn, sslCtx, certCrypto, defaultFallback) ==
  /\ Quiescent
  /\ ~IsFreeCtx(ctx, sslCtx)
  /\ \E r \in {insertSSLCtxByDomainName(idx[contexts_], dn, sslCtx, certCrypto,
                                         defaultFallback)} :
     \E w \in {Release(World([idx EXCEPT ![contexts_] = r.x], ctx),
                       {contexts_}, {defaultCtx_})} :
        /\ idx' = w.idx
        /\ ctx' = w.ctx
        /\ last' = Last("insertByName", <<dn, sslCtx, certCrypto, defaultFallback>>,
                        r.ok, FALSE, KeysOfName(dn, certCrypto), <<>>)
  /\ UNCHANGED <<contexts_, defaultCtx_, strict_, executor, futures, clientHelloTLSExtStats_, proc>>

\* SSLContextManager::removeSSLContextConfig
RemoveSSLContextConfig(key) ==
  /\ Quiescent
  /\ \E r \in {removeSSLContextConfig(idx[contexts_], key)} :
     \E w \in {Release(World([idx EXCEPT ![contexts_] = r.x], ctx),
                       {contexts_}, {defaultCtx_})} :
        /\ idx' = w.idx
        /\ ctx' = w.ctx
        /\ last' = Last("removeByKey", key, r.ok, r.fatal, {}, <<>>)
  /\ UNCHANGED <<contexts_, defaultCtx_, strict_, executor, futures, clientHelloTLSExtStats_, proc>>

\* SSLContextManager::removeSSLContextConfigByDomainName
RemoveSSLContextConfigByDomainName(domainName) ==
  /\ Quiescent
  /\ \E r \in {removeSSLContextConfigByDomainName(idx[contexts_], domainName)} :
     \E w \in {Release(World([idx EXCEPT ![contexts_] = r.x], ctx),
                       {contexts_}, {defaultCtx_})} :
        /\ idx' = w.idx
        /\ ctx' = w.ctx
        /\ last' = Last("removeByDomain", domainName, r.ok, r.fatal, {}, <<>>)
  /\ UNCHANGED <<contexts_, defaultCtx_, strict_, executor, futures, clientHelloTLSExtStats_, proc>>

\* SSLContextManager::clear
Clear ==
  /\ Quiescent
  /\ \E w \in {Release(World([idx EXCEPT ![contexts_] = clear(@)], ctx),
                       {contexts_}, {defaultCtx_})} :
        /\ idx' = w.idx
        /\ ctx' = w.ctx
  /\ last' = Last("clear", <<>>, TRUE, FALSE, {}, <<>>)
  /\ UNCHANGED <<contexts_, defaultCtx_, strict_, executor, futures, clientHelloTLSExtStats_, proc>>

NumFreeCtx == Cardinality({c \in CtxIds : IsFreeCtx(ctx, c)})

\* SSLContextManager::resetSSLContextConfigs, start to return: the manager
\* as the call leaves it. When addSSLContextConfig throws, the locals
\* (contexts, defaultCtx) are destroyed and nothing is swapped.
resetSSLContextConfigs(w, contexts, defaultCtx, strict, ctxConfigs, ticketSeeds, stats) ==
  LET \* lines 390-392 when the build r returned, the unwinding when it threw
      Swap(r) ==
        IF r.ok
          THEN [ok |-> TRUE, w |-> Release(r.w, {r.contexts}, {r.defaultCtx}),
                contexts |-> r.contexts, defaultCtx |-> r.defaultCtx]
          ELSE [ok |-> FALSE, w |-> Release(r.w, {contexts}, {defaultCtx}),
                contexts |-> contexts, defaultCtx |-> defaultCtx]
  IN Swap(resetBuild(w, contexts, strict, ctxConfigs, ticketSeeds, stats))

ResetSSLContextConfigs(ctxConfigs, ticketSeeds) ==
  /\ Quiescent
  /\ HasFreeIdx(idx)
  /\ NumFreeCtx >= Len(ctxConfigs)
  /\ \E r \in {resetSSLContextConfigs(TheWorld, contexts_, defaultCtx_, strict_,
                                       ctxConfigs, ticketSeeds,
                                       clientHelloTLSExtStats_)} :
        /\ idx' = r.w.idx
        /\ ctx' = r.w.ctx
        /\ contexts_' = r.contexts
        /\ defaultCtx_' = r.defaultCtx
        /\ last' = Last("reset", <<ctxConfigs, ticketSeeds>>, r.ok, FALSE, {}, <<>>)
  /\ UNCHANGED <<strict_, executor, futures, clientHelloTLSExtStats_, proc>>

\* SSLContextManager::reloadTLSTicketKeys
ReloadTLSTicketKeys(seeds) ==
  /\ Quiescent
  /\ LET w == reloadTLSTicketKeys(TheWorld, contexts_, defaultCtx_,
                                  seeds.oldSeeds, seeds.currentSeeds, seeds.newSeeds)
     IN ctx' = w.ctx
  /\ last' = Last("reload", seeds, TRUE, FALSE, {}, <<>>)
  /\ UNCHANGED <<idx, contexts_, defaultCtx_, strict_, executor, futures, clientHelloTLSExtStats_, proc>>

\* SSLContextManager::setClientHelloExtStats
SetClientHelloExtStats(stats) ==
  /\ Quiescent
  /\ clientHelloTLSExtStats_' = stats
  /\ ctx' = IF defaultCtx_ # Null
              THEN [ctx EXCEPT ![defaultCtx_] =
                      [@ EXCEPT !.cbSet = TRUE, !.cbStats = stats,
                                !.cbContexts = contexts_]]
              ELSE ctx
  /\ last' = Last("setStats", stats, TRUE, FALSE, {}, <<>>)
  /\ UNCHANGED <<idx, contexts_, defaultCtx_, strict_, executor, futures, proc>>

(***************************************************************************)
(* Data-path and read calls                                                *)
(***************************************************************************)
\* a handshake on a connection accepted with getDefaultSSLCtx(): OpenSSL
\* runs the server-name callback installed on that context
Handshake(sn, clientInfo) ==
  /\ Quiescent
  /\ defaultCtx_ # Null
  /\ ctx[defaultCtx_].cbSet
  /\ last' = Last("handshake", <<sn, clientInfo>>, TRUE, FALSE, {},
                  serverNameCallback(idx[ctx[defaultCtx_].cbContexts],
                                     ctx[defaultCtx_].cbStats, sn, clientInfo))
  /\ UNCHANGED <<idx, ctx, contexts_, defaultCtx_, strict_, executor, futures, clientHelloTLSExtStats_, proc>>

(***************************************************************************)
(* Calls in progress on several threads. The manager takes no lock:        *)
(* resetSSLContextConfigs, reloadTLSTicketKeys and getSSLCtx read and      *)
(* write contexts_ and defaultCtx_ one statement at a time.                *)
(***************************************************************************)
\* the shared_ptrs held by calls in progress
ProcIdx(p) == {p.rs.contexts, p.ad.contexts}
ProcCtx(p) == {p.rs.defaultCtx, p.hs.ctx, p.ad.sslCtx}

\* the complete (index, default) pairs of the moment: the pair the manager
\* holds, or - between the two swaps of a reset - the pair before the reset
\* and the pair after it
CompletePairs ==
  IF proc.rs.pc = "swapped"
    THEN {<<proc.rs.contexts, defaultCtx_>>, <<contexts_, proc.rs.defaultCtx>>}
    ELSE {<<contexts_, defaultCtx_>>}

\* lines 373-378: create the new index, harvest the seeds
ResetCreate(ctxConfigs, ticketSeeds) ==
  /\ Running
  /\ proc.rs.pc = "idle"
  /\ HasFreeIdx(idx)
  /\ idx' = [idx EXCEPT ![FreshIdx(idx)] = NewSslContexts(strict_)]
  /\ proc' = [proc EXCEPT !.rs =
                [pc |-> "created", ctxConfigs |-> ctxConfigs,
                 ticketSeeds |-> ticketSeeds,
                 seeds |-> ResetSeeds(TheWorld, contexts_, ticketSeeds),
                 contexts |-> FreshIdx(idx), defaultCtx |-> Null]]
  /\ UNCHANGED <<ctx, contexts_, defaultCtx_, strict_, executor, futures, clientHelloTLSExtStats_, last>>

\* lines 380-389: build every config into the new index; an exception
\* leaves the call and destroys its locals
ResetBuild ==
  /\ Running
  /\ proc.rs.pc = "created"
  /\ NumFreeCtx >= Len(proc.rs.ctxConfigs)
  /\ \E r \in {addConfigs(TheWorld, proc.rs.contexts, proc.rs.ctxConfigs, 1,
                           proc.rs.seeds, clientHelloTLSExtStats_, Null)} :
     \E p \in {IF r.ok
                 THEN [proc EXCEPT !.rs.pc = "built", !.rs.defaultCtx = r.newDefault]
                 ELSE [proc EXCEPT !.rs = ResetIdle]} :
     \E w \in {Release(r.w, {contexts_} \cup ProcIdx(p),
                       {defaultCtx_} \cup ProcCtx(p))} :
        /\ idx' = w.idx
        /\ ctx' = w.ctx
        /\ proc' = p
        /\ last' = IF r.ok THEN last
                   ELSE Last("reset", <<proc.rs.ctxConfigs, proc.rs.ticketSeeds>>,
                             FALSE, FALSE, {}, <<>>)
  /\ UNCHANGED <<contexts_, defaultCtx_, strict_, executor, futures, clientHelloTLSExtStats_>>

\* SSLContextManager::getSSLCtx evaluated on one (index, default) pair
Mgr_getSSLCtx(w, contexts, defaultCtx, key) ==
  IF isDefaultCtx(w.idx[contexts], key) THEN defaultCtx
  ELSE getSSLCtx(w.idx[contexts], key)

\* line 390: contexts_.swap(contexts)
ResetSwapContexts ==
  /\ Running
  /\ proc.rs.pc = "built"
  /\ contexts_' = proc.rs.contexts
  /\ proc' = [proc EXCEPT
       !.rs.pc = "swapped",
       !.rs.contexts = contexts_,
       !.rd.expect = IF proc.rd.pc = "idle" THEN @
                     ELSE @ \cup {Mgr_getSSLCtx(TheWorld, proc.rs.contexts,
                                               proc.rs.defaultCtx, proc.rd.key)},
       !.hs.pairs = IF proc.hs.pc = "idle" THEN @
                    ELSE @ \cup {<<proc.rs.contexts, proc.rs.defaultCtx>>}]
  /\ UNCHANGED <<idx, ctx, defaultCtx_, strict_, executor, futures, clientHelloTLSExtStats_, last>>

\* lines 391-392: defaultCtx_.swap(defaultCtx), then the locals go out of
\* scope and release the previous index and default
ResetSwapDefault ==
  /\ Running
  /\ proc.rs.pc = "swapped"
  /\ defaultCtx_' = proc.rs.defaultCtx
  /\ \E p \in {[proc EXCEPT
                   !.rs = ResetIdle,
                   !.done.reset = proc.rs.ticketSeeds.null]} :
     \E w \in {Release(TheWorld, {contexts_} \cup ProcIdx(p),
                       {proc.rs.defaultCtx} \cup ProcCtx(p))} :
        /\ idx' = w.idx
        /\ ctx' = w.ctx
        /\ proc' = p
  /\ last' = Last("reset", <<proc.rs.ctxConfigs, proc.rs.ticketSeeds>>,
                  TRUE, FALSE, {}, <<>>)
  /\ UNCHANGED <<contexts_, strict_, executor, futures, clientHelloTLSExtStats_>>

\* line 1160: contexts_->reloadTLSTicketKeys
ReloadContexts(seeds) ==
  /\ Running
  /\ proc.rl.pc = "idle"
  /\ ctx' = SslContexts_reloadTLSTicketKeys(TheWorld, contexts_, seeds.oldSeeds,
                                            seeds.currentSeeds, seeds.newSeeds).ctx
  /\ proc' = [proc EXCEPT !.rl = [pc |-> "contextsDone", seeds |-> seeds]]
  /\ UNCHANGED <<idx, contexts_, defaultCtx_, strict_, executor, futures, clientHelloTLSExtStats_, last>>

\* lines 1161-1166: the default context's ticket manager
ReloadDefault ==
  /\ Running
  /\ proc.rl.pc = "contextsDone"
  /\ LET s == proc.rl.seeds
     IN ctx' = IF defaultCtx_ # Null /\ ctx[defaultCtx_].tm.present
                 THEN [ctx EXCEPT ![defaultCtx_].tm =
                         setTLSTicketKeySeeds(@, s.oldSeeds, s.currentSeeds, s.newSeeds)]
                 ELSE ctx
  /\ proc' = [proc EXCEPT !.rl = ReloadIdle,
                          !.done.reload = TRUE,
                          !.done.seeds = proc.rl.seeds]
  /\ last' = Last("reload", proc.rl.seeds, TRUE, FALSE, {}, <<>>)
  /\ UNCHANGED <<idx, contexts_, defaultCtx_, strict_, executor, futures, clientHelloTLSExtStats_>>

\* line 1134: contexts_->isDefaultCtx(key)
ReadIsDefault(key) ==
  /\ Running
  /\ proc.rd.pc = "idle"
  /\ proc' = [proc EXCEPT !.rd =
       [pc |-> "checked", key |-> key,
        isDefault |-> isDefaultCtx(idx[contexts_], key),
        expect |-> {Mgr_getSSLCtx(TheWorld, pr[1], pr[2], key) : pr \in CompletePairs}]]
  /\ UNCHANGED <<idx, ctx, contexts_, defaultCtx_, strict_, executor, futures, clientHelloTLSExtStats_, last>>

\* lines 1135-1137: return defaultCtx_, or contexts_->getSSLCtx(key)
ReadReturn ==
  /\ Running
  /\ proc.rd.pc = "checked"
  /\ last' = Last("getSSLCtx", proc.rd.key, TRUE, FALSE, {},
                  [ctx |-> IF proc.rd.isDefault THEN defaultCtx_
                           ELSE getSSLCtx(idx[contexts_], proc.rd.key),
                   expect |-> proc.rd.expect])
  /\ proc' = [proc EXCEPT !.rd = ReadIdle]
  /\ UNCHANGED <<idx, ctx, contexts_, defaultCtx_, strict_, executor, futures, clientHelloTLSExtStats_>>

\* a connection is accepted with getDefaultSSLCtx()
ConnAccept ==
  /\ Running
  /\ proc.hs.pc = "idle"
  /\ defaultCtx_ # Null
  /\ ctx[defaultCtx_].cbSet
  /\ proc' = [proc EXCEPT !.hs =
       [pc |-> "accepted", ctx |-> defaultCtx_, pairs |-> CompletePairs]]
  /\ UNCHANGED <<idx, ctx, contexts_, defaultCtx_, strict_, executor, futures, clientHelloTLSExtStats_, last>>

\* its ClientHello arrives: the callback of the context it was accepted
\* with runs against the index that callback captured
ConnClientHello(sn, clientInfo) ==
  /\ Running
  /\ proc.hs.pc = "accepted"
  /\ \E d \in {proc.hs.ctx} :
     \E p \in {[proc EXCEPT !.hs = ConnIdle]} :
     \E w \in {Release(TheWorld, {contexts_} \cup ProcIdx(p),
                       {defaultCtx_} \cup ProcCtx(p))} :
        /\ last' = Last("clientHello", <<sn, clientInfo>>, TRUE, FALSE, {},
                        [res |-> serverNameCallback(idx[ctx[d].cbContexts],
                                                    ctx[d].cbStats, sn, clientInfo),
                         pair |-> <<ctx[d].cbContexts, d>>,
                         pairs |-> proc.hs.pairs])
        /\ proc' = p
        /\ idx' = w.idx
        /\ ctx' = w.ctx
  /\ UNCHANGED <<contexts_, defaultCtx_, strict_, executor, futures, clientHelloTLSExtStats_>>

\* SSLContextManager::getSSLCtxBySuffix without lines 1142-1144: the lookup
\* goes to dnMap_ only
Mgr_getSSLCtxBySuffix_indexOnly(w, contexts, defaultCtx, key) ==
  getSSLCtxBySuffix(w.idx[contexts], key)

\* SSLContextManager::getSSLCtxBySuffix and getSSLCtxByExactDomain
Mgr_getSSLCtxBySuffix(w, contexts, defaultCtx, key) ==
  IF isDefaultCtxSuffix(w.idx[contexts], key) THEN defaultCtx
  ELSE getSSLCtxBySuffix(w.idx[contexts], key)

Mgr_getSSLCtxByExactDomain(w, contexts, defaultCtx, key) ==
  IF isDefaultCtxExact(w.idx[contexts], key) THEN defaultCtx
  ELSE getSSLCtxByExactDomain(w.idx[contexts], key)

\* the read accessors of the manager, called between control-plane calls
GetSSLCtx(key) ==
  /\ Quiescent
  /\ last' = Last("read", <<"getSSLCtx", key>>, TRUE, FALSE, {},
                  Mgr_getSSLCtx(TheWorld, contexts_, defaultCtx_, key))
  /\ UNCHANGED <<idx, ctx, contexts_, defaultCtx_, strict_, executor, futures, clientHelloTLSExtStats_, proc>>

GetSSLCtxBySuffix(key) ==
  /\ Quiescent
  /\ last' = Last("read", <<"getSSLCtxBySuffix", key>>, TRUE, FALSE, {},
                  Mgr_getSSLCtxBySuffix(TheWorld, contexts_, defaultCtx_, key))
  /\ UNCHANGED <<idx, ctx, contexts_, defaultCtx_, strict_, executor, futures, clientHelloTLSExtStats_, proc>>

GetSSLCtxByExactDomain(key) ==
  /\ Quiescent
  /\ last' = Last("read", <<"getSSLCtxByExactDomain", key>>, TRUE, FALSE, {},
                  Mgr_getSSLCtxByExactDomain(TheWorld, contexts_, defaultCtx_, key))
  /\ UNCHANGED <<idx, ctx, contexts_, defaultCtx_, strict_, executor, futures, clientHelloTLSExtStats_, proc>>

(***************************************************************************)
(* ThreadedExecutor: calls and thread steps                                *)
(***************************************************************************)
managerVars ==
  <<idx, ctx, contexts_, defaultCtx_, strict_, clientHelloTLSExtStats_, proc, last>>

\* the future of folly::via(&x, f) is ready once f has returned
FutureReady(t) == executor.task[t] \in {"ran", "finished", "joined"}

\* ThreadedExecutor::add, before the destructor is called: the task is
\* enqueued and the control thread notified
ExecutorAdd(t) ==
  /\ executor.dtor = "none"
  /\ executor.task[t] = "new"
  /\ executor' = ThreadedExecutor_add(executor, t)
  /\ UNCHANGED <<managerVars, futures>>

\* the control thread wakes, notified or after its wait timed out
ControlWait ==
  /\ executor.control.pc = "wait"
  /\ executor' = [executor EXCEPT !.controls_ = FALSE, !.control.pc = "load"]
  /\ UNCHANGED <<managerVars, futures>>

\* the control thread reads stopping_ at the start of a pass
ControlLoadStopping ==
  /\ executor.control.pc = "load"
  /\ executor' = [executor EXCEPT !.control.stopping = executor.stopping_,
                                  !.control.pc = "join"]
  /\ UNCHANGED <<managerVars, futures>>

\* the control thread takes finished_ and joins those threads
ControlJoinFinishedThreads ==
  /\ executor.control.pc = "join"
  /\ executor' = [executor EXCEPT
       !.running_ = @ \ Range(executor.finished_),
       !.task = [t \in Tasks |-> IF t \in Range(executor.finished_)
                                   THEN "joined" ELSE @[t]],
       !.finished_ = <<>>,
       !.control.pc = "launch"]
  /\ UNCHANGED <<managerVars, futures>>

\* the control thread takes enqueued_ and launches one thread per task,
\* then goes back to waiting or leaves the loop
ControlLaunchEnqueuedTasks ==
  /\ executor.control.pc = "launch"
  /\ \E running \in {executor.running_ \cup Range(executor.enqueued_)} :
       executor' = [executor EXCEPT
         !.running_ = running,
         !.task = [t \in Tasks |-> IF t \in Range(executor.enqueued_)
                                     THEN "running" ELSE @[t]],
         !.enqueued_ = <<>>,
         !.control.pc = IF controlLoops(executor.control.stopping, running)
                          THEN "wait" ELSE "exited"]
  /\ UNCHANGED <<managerVars, futures>>

\* a task's thread runs the task's function to its end
Work(t) ==
  /\ executor.task[t] = "running"
  /\ executor' = ThreadedExecutor_work(executor, t)
  /\ UNCHANGED <<managerVars, futures>>

\* a task's thread reports itself finished and notifies the control thread
WorkFinished(t) ==
  /\ executor.task[t] = "ran"
  /\ executor' = [executor EXCEPT !.task[t] = "finished",
                                  !.finished_ = Append(@, t),
                                  !.controls_ = TRUE]
  /\ UNCHANGED <<managerVars, futures>>

\* ~ThreadedExecutor: sets stopping_ and notifies the control thread
DtorStop ==
  /\ executor.dtor = "none"
  /\ executor' = [executor EXCEPT !.stopping_ = TRUE, !.controls_ = TRUE,
                                  !.dtor = "joining"]
  /\ UNCHANGED <<managerVars, futures>>

\* ~ThreadedExecutor: joins the control thread and returns
DtorJoin ==
  /\ executor.dtor = "joining"
  /\ executor.control.pc = "exited"
  /\ executor' = [executor EXCEPT !.dtor = "returned"]
  /\ UNCHANGED <<managerVars, futures>>

(***************************************************************************)
(* FutureExecutor<ThreadedExecutor>: addFuture and the tasks it adds       *)
(***************************************************************************)
\* FutureExecutor::addFuture(func), either overload: makes a promise, adds
\* the task that runs func to the executor and returns the promise's future
AddFuture(t, func) ==
  /\ ~futures.terminated
  /\ executor.dtor = "none"
  /\ executor.task[t] = "new"
  /\ executor' = ThreadedExecutor_add(executor, t)
  /\ futures' = [futures EXCEPT !.slot[t] = [NoSlot EXCEPT !.func = func,
                                                           !.added = TRUE]]
  /\ UNCHANGED managerVars

\* the task of the value-returning overload: promise.setWith(func) fulfils
\* the promise with the value func returns or with the exception it throws
RunValueTask(t) ==
  /\ ~futures.terminated
  /\ executor.task[t] = "running"
  /\ futures.slot[t].func.overload = "value"
  /\ executor' = ThreadedExecutor_work(executor, t)
  /\ futures' = [futures EXCEPT !.slot[t] =
       Fulfil([@ EXCEPT !.ran = TRUE], futures.slot[t].func.outcome)]
  /\ UNCHANGED managerVars

\* the task of the Future-returning overload when func returns its future:
\* then() attaches the callback that hands the inner future's Try to the
\* promise; the callback runs at once when the inner future is complete
RunFutureTask(t) ==
  /\ ~futures.terminated
  /\ executor.task[t] = "running"
  /\ futures.slot[t].func.overload = "future"
  /\ futures.slot[t].func.outcome.kind = "value"
  /\ executor' = ThreadedExecutor_work(executor, t)
  /\ futures' = [futures EXCEPT !.slot[t] =
       IF futures.slot[t].func.ready
         THEN Fulfil([@ EXCEPT !.ran = TRUE, !.inner = "done"],
                     futures.slot[t].func.inner)
         ELSE [@ EXCEPT !.ran = TRUE, !.inner = "pending"]]
  /\ UNCHANGED managerVars

\* the task of the Future-returning overload when func throws: nothing
\* catches the exception in the task, it leaves the task. Either it ends the
\* process, or the executor drops the task and the promise is destroyed
\* without a result, or the promise is destroyed while the exception unwinds
\* and the process ends then
RunFutureTaskThrows(t) ==
  /\ ~futures.terminated
  /\ executor.task[t] = "running"
  /\ futures.slot[t].func.overload = "future"
  /\ futures.slot[t].func.outcome.kind = "exception"
  /\ \/ /\ futures' = [futures EXCEPT !.slot[t].ran = TRUE, !.terminated = TRUE]
        /\ UNCHANGED executor
     \/ /\ futures' = [futures EXCEPT !.slot[t] =
             Fulfil([@ EXCEPT !.ran = TRUE], BrokenPromise)]
        /\ executor' = ThreadedExecutor_work(executor, t)
     \/ /\ futures' = [futures EXCEPT !.slot[t] =
                                         Fulfil([@ EXCEPT !.ran = TRUE], BrokenPromise),
                                       !.terminated = TRUE]
        /\ UNCHANGED executor
  /\ UNCHANGED managerVars

\* the inner future completes after func returned it: the callback hands
\* its Try to the promise
InnerCompletes(t) ==
  /\ ~futures.terminated
  /\ futures.slot[t].inner = "pending"
  /\ futures' = [futures EXCEPT !.slot[t] =
       Fulfil([@ EXCEPT !.inner = "done"], futures.slot[t].func.inner)]
  /\ UNCHANGED <<managerVars, executor>>

(***************************************************************************)
(* addSSLContextConfig one insertion at a time, with handshakes in         *)
(* progress: the manager calls contexts_->addSSLContextConfig on the live  *)
(* index, which the server-name callback of the default context captured   *)
(***************************************************************************)
\* lines 1103-1117 and 427-511, and the prologue of insert() (lines 806-842):
\* the context is built and set up; a throw ends the call here
AddBegin(ctxConfig, ticketSeeds) ==
  /\ Running
  /\ proc.rs.pc = "idle" /\ proc.rl.pc = "idle"
  /\ proc.rd.pc = "idle" /\ proc.ad.pc = "idle"
  /\ HasFreeCtx(ctx)
  /\ \E sslCtx \in {FreshCtx(ctx)} :
     \E s \in {ctxSetupByOpensslFeature(NewServerSSLContext(ctxConfig, ticketSeeds),
                    sslCtx, ctxConfig, clientHelloTLSExtStats_, defaultCtx_,
                    contexts_)} :
       IF ~s.ok \/ (IsStarCN(ctxConfig.cert.cn) /\ ~ctxConfig.isDefault)
         THEN /\ last' = Last("add", <<ctxConfig, ticketSeeds>>, FALSE, FALSE, {}, <<>>)
              /\ defaultCtx_' = s.newDefault
              /\ UNCHANGED <<idx, ctx, proc>>
       ELSE IF IsStarCN(ctxConfig.cert.cn)
         THEN /\ ctx' = [ctx EXCEPT ![sslCtx] = s.rec]
              /\ defaultCtx_' = s.newDefault
              /\ last' = Last("add", <<ctxConfig, ticketSeeds>>, TRUE, FALSE, {}, <<>>)
              /\ proc' = [proc EXCEPT !.done = NothingDone]
              /\ UNCHANGED idx
       ELSE /\ ctx' = [ctx EXCEPT ![sslCtx] = s.rec]
            /\ defaultCtx_' = s.newDefault
            /\ proc' = [proc EXCEPT !.ad =
                 [pc |-> "insert", ctxConfig |-> ctxConfig,
                  ticketSeeds |-> ticketSeeds, contexts |-> contexts_,
                  sslCtx |-> sslCtx, i |-> 1]]
            /\ UNCHANGED <<idx, last>>
  /\ UNCHANGED <<contexts_, strict_, executor, futures, clientHelloTLSExtStats_>>

\* the write addSSLContextConfig makes next on its index x: the insertion of
\* name i (lines 855-863), or lines 865-869 after the last name
AddPendingWrite(x, ad) ==
  IF ad.i <= Len(NamesOf(ad.ctxConfig.cert))
    THEN insertSSLCtxByDomainName(x, NamesOf(ad.ctxConfig.cert)[ad.i], ad.sslCtx,
                                  CertCryptoOf(ad.ctxConfig.cert.sigAlg),
                                  ad.ctxConfig.isDefault)
  ELSE IF ad.ctxConfig.isDefault
    THEN Res(TRUE, [x EXCEPT !.defaultCtxDomainName_ = ad.ctxConfig.cert.cn])
  ELSE Res(TRUE, addServerContext(x, ad.sslCtx))

\* one insertSSLCtxByDomainName of insert(); a throw ends the call (lines
\* 516-521) and drops the context
AddInsertName ==
  /\ Running
  /\ proc.ad.pc = "insert"
  /\ proc.ad.i <= Len(NamesOf(proc.ad.ctxConfig.cert))
  /\ \E r \in {AddPendingWrite(idx[proc.ad.contexts], proc.ad)} :
       IF r.ok
         THEN /\ idx' = [idx EXCEPT ![proc.ad.contexts] = r.x]
              /\ proc' = [proc EXCEPT !.ad.i = @ + 1]
              /\ UNCHANGED <<ctx, last>>
       ELSE \E p \in {[proc EXCEPT !.ad = AddIdle]} :
            \E w \in {Release(TheWorld, {contexts_} \cup ProcIdx(p),
                              {defaultCtx_} \cup ProcCtx(p))} :
              /\ idx' = w.idx
              /\ ctx' = w.ctx
              /\ proc' = p
              /\ last' = Last("add", <<proc.ad.ctxConfig, proc.ad.ticketSeeds>>,
                              FALSE, FALSE, {}, <<>>)
  /\ UNCHANGED <<contexts_, defaultCtx_, strict_, executor, futures, clientHelloTLSExtStats_>>

\* lines 865-869: the default's domain name or addServerContext; the call
\* returns
AddFinish ==
  /\ Running
  /\ proc.ad.pc = "insert"
  /\ proc.ad.i > Len(NamesOf(proc.ad.ctxConfig.cert))
  /\ \E r \in {AddPendingWrite(idx[proc.ad.contexts], proc.ad)} :
     \E p \in {[proc EXCEPT !.ad = AddIdle, !.done = NothingDone]} :
     \E w \in {Release(World([idx EXCEPT ![proc.ad.contexts] = r.x], ctx),
                       {contexts_} \cup ProcIdx(p),
                       {defaultCtx_} \cup ProcCtx(p))} :
       /\ idx' = w.idx
       /\ ctx' = w.ctx
       /\ proc' = p
       /\ last' = Last("add", <<proc.ad.ctxConfig, proc.ad.ticketSeeds>>, TRUE, FALSE,
                       KeysOfCert(proc.ad.ctxConfig.cert, strict_), <<>>)
  /\ UNCHANGED <<contexts_, defaultCtx_, strict_, executor, futures, clientHelloTLSExtStats_>>

\* a ClientHello whose callback reads dnMap_ and defaultCtxKeys_ while the
\* add writes them, with no lock on either side: a data race. The callback
\* answers from the index before the write or after it, or the process dies
ConnClientHelloRace(sn, clientInfo) ==
  /\ Running
  /\ proc.hs.pc = "accepted"
  /\ proc.ad.pc = "insert"
  /\ proc.ad.contexts = ctx[proc.hs.ctx].cbContexts
  /\ \E d \in {proc.hs.ctx} :
     \E p \in {[proc EXCEPT !.hs = ConnIdle]} :
     \E w \in {Release(TheWorld, {contexts_} \cup ProcIdx(p),
                       {defaultCtx_} \cup ProcCtx(p))} :
     \E x \in {idx[ctx[d].cbContexts],
               AddPendingWrite(idx[ctx[d].cbContexts], proc.ad).x} :
     \E fatal \in BOOLEAN :
        /\ last' = Last("clientHello", <<sn, clientInfo>>, ~fatal, fatal, {},
                        [res |-> serverNameCallback(x, ctx[d].cbStats, sn, clientInfo),
                         pair |-> <<ctx[d].cbContexts, d>>,
                         pairs |-> proc.hs.pairs])
        /\ proc' = p
        /\ idx' = w.idx
        /\ ctx' = w.ctx
  /\ UNCHANGED <<contexts_, defaultCtx_, strict_, executor, futures, clientHelloTLSExtStats_>>

(***************************************************************************)
(* Inputs                                                                  *)
(***************************************************************************)
CertAB == X509(N_ab, <<>>, NID_sha256WithRSAEncryption)
CertWild == X509(N_wb, <<>>, NID_sha256WithRSAEncryption)
CertMulti == X509(N_ab, <<N_cb>>, NID_sha256WithRSAEncryption)
CertSha1 == X509(N_ab, <<>>, NID_sha1WithRSAEncryption)
CertBadSan == X509(N_cb, <<N_bad>>, NID_sha256WithRSAEncryption)
CertStar == X509(N_star, <<>>, NID_sha256WithRSAEncryption)

\* a config without session tickets
Plain(cert, isDefault) == SSLContextConfig(cert, isDefault, FALSE)
\* a config with session tickets
Ticketed(cert, isDefault) == SSLContextConfig(cert, isDefault, TRUE)

StoredNames == {N_ab, N_cb, N_dotb}
Keys == {SSLContextKey(dn, cr) : dn \in StoredNames, cr \in CertCrypto}
DomainNames == {N_ab, N_cb, N_wb}

Seeds1 == TLSTicketKeySeeds(<<"o1">>, <<"c1">>, <<"n1">>)
Seeds2 == TLSTicketKeySeeds(<<"o2">>, <<"c2">>, <<"n2">>)

Sha256Hello == ClientHelloInfo(<< <<"SHA256", "RSA">> >>, <<"SERVER_NAME">>)
Sha1Hello == ClientHelloInfo(<< <<"SHA1", "RSA">> >>, <<>>)

(***************************************************************************)
(* Specification of the index: add, remove, reset and clear over certs     *)
(* with one name, two names, a wildcard name and a SHA-1 signature         *)
(***************************************************************************)
IndexConfigs ==
  {Plain(cert, d) : cert \in {CertAB, CertWild, CertMulti, CertSha1}, d \in BOOLEAN}

IndexResetLists ==
  {<<Plain(CertAB, TRUE), Plain(CertWild, FALSE)>>,
   <<Plain(CertSha1, FALSE)>>,
   <<Plain(CertAB, TRUE), Plain(CertWild, TRUE)>>,
   <<Plain(CertBadSan, FALSE)>>,
   <<Plain(CertStar, FALSE)>>}

Next ==
  \/ \E c \in IndexConfigs : AddSSLContextConfig(c, NullSeeds)
  \/ \E k \in Keys : RemoveSSLContextConfig(k)
  \/ \E dn \in DomainNames : RemoveSSLContextConfigByDomainName(dn)
  \/ \E l \in IndexResetLists : ResetSSLContextConfigs(l, NullSeeds)
  \/ Clear

Spec == Init /\ [][Next]_vars

(***************************************************************************)
(* Specification of the insertion tables: every call that installs keys,   *)
(* on one name in both crypto tiers                                        *)
(***************************************************************************)
InsertConfigs == {Plain(cert, d) : cert \in {CertAB, CertSha1}, d \in BOOLEAN}

NextInsert ==
  \/ \E c \in InsertConfigs : AddSSLContextConfig(c, NullSeeds)
  \/ \E c \in CtxIds, cr \in CertCrypto, d \in BOOLEAN :
       InsertSSLCtxByDomainName(N_ab, c, cr, d)
  \/ \E cr \in CertCrypto : RemoveSSLContextConfig(SSLContextKey(N_ab, cr))
  \/ RemoveSSLContextConfigByDomainName(N_ab)
  \/ \E l \in {<<Plain(CertAB, TRUE), Plain(CertSha1, FALSE)>>, <<Plain(CertSha1, FALSE)>>} :
       ResetSSLContextConfigs(l, NullSeeds)
  \/ Clear

SpecInsert == Init /\ [][NextInsert]_vars

(***************************************************************************)
(* Specification of SNI dispatch: contexts are added, handshakes run       *)
(***************************************************************************)
SniConfigs == {Plain(cert, d) : cert \in {CertAB, CertWild, CertSha1}, d \in BOOLEAN}
SniNames == {NoServerName, ServerName(N_ab), ServerName(N_cb)}
SniHellos == {NoClientHelloInfo, Sha256Hello, Sha1Hello}

NextSni ==
  \/ \E c \in SniConfigs : AddSSLContextConfig(c, NullSeeds)
  \/ \E s \in BOOLEAN : SetClientHelloExtStats(s)
  \/ \E sn \in SniNames, h \in SniHellos : Handshake(sn, h)

SpecSni == Init /\ [][NextSni]_vars

(***************************************************************************)
(* Specification of the ticket seeds: contexts with and without ticket     *)
(* managers, reloads and seedless resets, one call at a time               *)
(***************************************************************************)
TicketConfigs == {Ticketed(CertAB, TRUE), Ticketed(CertWild, FALSE), Plain(CertWild, FALSE)}
TicketResetLists ==
  {<<Ticketed(CertAB, TRUE), Ticketed(CertWild, FALSE)>>, <<Ticketed(CertWild, FALSE)>>}

NextTickets ==
  \/ \E c \in TicketConfigs : AddSSLContextConfig(c, SeedsPtr(Seeds1))
  \/ \E s \in {Seeds1, Seeds2} : ReloadTLSTicketKeys(s)
  \/ \E l \in TicketResetLists : ResetSSLContextConfigs(l, NullSeeds)

SpecTickets == Init /\ [][NextTickets]_vars

(***************************************************************************)
(* Specification of the threads: a reset, a reload, a registry read and a  *)
(* handshake in progress at the same time                                  *)
(***************************************************************************)
ConcConfigs == {Ticketed(CertAB, TRUE), Ticketed(CertAB, FALSE)}

\* a harvest of the live index finds seeds: some context of ctxs_ has a
\* ticket manager
HarvestFindsSeeds ==
  \E c \in Range(idx[contexts_].ctxs_) : ctx[c].tm.present
ConcResetLists == {<<Ticketed(CertWild, TRUE)>>, <<Ticketed(CertWild, TRUE), Ticketed(CertAB, FALSE)>>}
ConcKeys == {SSLContextKey(N_ab, BEST_AVAILABLE), SSLContextKey(N_cb, BEST_AVAILABLE)}

\* contexts are added before the first reset or reload
Setup == Quiescent /\ proc.done = NothingDone

NextConc ==
  \/ \E c \in ConcConfigs : Setup /\ AddSSLContextConfig(c, SeedsPtr(Seeds1))
  \/ \E l \in ConcResetLists : ResetCreate(l, NullSeeds)
  \/ ResetBuild
  \/ ResetSwapContexts
  \/ ResetSwapDefault
  \/ HarvestFindsSeeds /\ ReloadContexts(Seeds2)
  \/ ReloadDefault
  \/ \E k \in ConcKeys : ReadIsDefault(k)
  \/ ReadReturn
  \/ ConnAccept
  \/ \E sn \in {NoServerName, ServerName(N_cb)} : ConnClientHello(sn, Sha256Hello)

SpecConc == Init /\ [][NextConc]_vars

(***************************************************************************)
(* Specification of wildcard dispatch: names of two and three labels       *)
(***************************************************************************)
N_abc == <<"a", ".", "b", ".", "c">>
N_bc == <<"b", ".", "c">>
N_wbc == <<"*", ".", "b", ".", "c">>
N_wc == <<"*", ".", "c">>
N_dotbc == <<".", "b", ".", "c">>
N_dotc == <<".", "c">>

CertWbc == X509(N_wbc, <<>>, NID_sha256WithRSAEncryption)
CertWc == X509(N_wc, <<>>, NID_sha256WithRSAEncryption)
CertBC == X509(N_bc, <<>>, NID_sha256WithRSAEncryption)

WildConfigs == {Plain(cert, d) : cert \in {CertWbc, CertWc, CertBC}, d \in BOOLEAN}
WildNames == {ServerName(N_abc), ServerName(N_bc)}

NextWild ==
  \/ \E c \in WildConfigs : AddSSLContextConfig(c, NullSeeds)
  \/ \E sn \in WildNames, h \in {NoClientHelloInfo, Sha256Hello} : Handshake(sn, h)

SpecWild == Init /\ [][NextWild]_vars

(***************************************************************************)
(* Specification of failing adds: certs with a rejected subject alternative *)
(* name and with the CN "*", on strict and lax registries                   *)
(***************************************************************************)
FailConfigs == {Plain(cert, d) : cert \in {CertAB, CertBadSan, CertStar}, d \in BOOLEAN}
FailKeys == {SSLContextKey(N_ab, BEST_AVAILABLE), SSLContextKey(N_cb, BEST_AVAILABLE)}

NextFail ==
  \/ \E c \in FailConfigs : AddSSLContextConfig(c, NullSeeds)
  \/ \E k \in FailKeys : RemoveSSLContextConfig(k)
  \/ Clear

SpecFail == Init /\ [][NextFail]_vars

(***************************************************************************)
(* Specification of the requested tier: handshakes whose ClientHello lists *)
(* signature algorithms of several hashes, with and without the SNI        *)
(* extension                                                               *)
(***************************************************************************)
TierSigAlgs ==
  {<<>>,
   << <<"SHA1", "RSA">> >>,
   << <<"SHA256", "RSA">> >>,
   << <<"SHA384", "RSA">> >>,
   << <<"SHA1", "RSA">>, <<"SHA256", "ECDSA">> >>,
   << <<"SHA1", "RSA">>, <<"SHA512", "RSA">> >>}
TierHellos ==
  {NoClientHelloInfo}
    \cup {ClientHelloInfo(s, e) : s \in TierSigAlgs, e \in {<<>>, <<"SERVER_NAME">>}}
TierConfigs == {Plain(CertAB, TRUE), Plain(CertSha1, FALSE)}

NextTier ==
  \/ \E c \in TierConfigs : AddSSLContextConfig(c, NullSeeds)
  \/ \E s \in BOOLEAN : SetClientHelloExtStats(s)
  \/ \E sn \in {NoServerName, ServerName(N_ab)}, h \in TierHellos : Handshake(sn, h)

SpecTier == Init /\ [][NextTier]_vars

(***************************************************************************)
(* Specification of the read accessors: lookups by key, by suffix and by   *)
(* exact name on registries with default and non-default contexts          *)
(***************************************************************************)
ReadConfigs == {Plain(cert, d) : cert \in {CertAB, CertWild, CertSha1}, d \in BOOLEAN}
ReadKeys == {SSLContextKey(dn, cr) : dn \in {N_ab, N_cb, N_dotb, N_star}, cr \in CertCrypto}

NextRead ==
  \/ \E c \in ReadConfigs : AddSSLContextConfig(c, NullSeeds)
  \/ Clear
  \/ \E k \in ReadKeys : GetSSLCtx(k)
  \/ \E k \in ReadKeys : GetSSLCtxBySuffix(k)
  \/ \E k \in ReadKeys : GetSSLCtxByExactDomain(k)

SpecRead == Init /\ [][NextRead]_vars

(***************************************************************************)
(* Specification of reloads after adds and removes: ticketed certs with    *)
(* one and with two names                                                  *)
(***************************************************************************)
ReloadConfigs == {Ticketed(CertAB, TRUE), Ticketed(CertMulti, FALSE), Plain(CertWild, FALSE)}
ReloadKeys == {SSLContextKey(dn, BEST_AVAILABLE) : dn \in {N_ab, N_cb, N_dotb}}

NextReload ==
  \/ \E c \in ReloadConfigs : AddSSLContextConfig(c, SeedsPtr(Seeds1))
  \/ \E k \in ReloadKeys : RemoveSSLContextConfig(k)
  \/ \E s \in {Seeds1, Seeds2} : ReloadTLSTicketKeys(s)

SpecReload == Init /\ [][NextReload]_vars

(***************************************************************************)
(* Specification of the executor: tasks are added, run on their threads,   *)
(* and the executor is destroyed                                           *)
(***************************************************************************)
NextExecutor ==
  \/ \E t \in Tasks : ExecutorAdd(t)
  \/ ControlWait
  \/ ControlLoadStopping
  \/ ControlJoinFinishedThreads
  \/ ControlLaunchEnqueuedTasks
  \/ \E t \in Tasks : Work(t)
  \/ \E t \in Tasks : WorkFinished(t)
  \/ DtorStop
  \/ DtorJoin

SpecExecutor == Init /\ [][NextExecutor]_vars

(***************************************************************************)
(* Specification of addFuture: functions of both overloads that return or  *)
(* throw, on an executor that is running                                    *)
(***************************************************************************)
Funcs ==
  {ValueFunc(TryValue("v")), ValueFunc(TryException("e")),
   FutureFunc(TryValue("w"), TRUE), FutureFunc(TryValue("w"), FALSE),
   FutureFunc(TryException("f"), FALSE), ThrowingFutureFunc("e")}

NextFuture ==
  \/ \E t \in Tasks, func \in Funcs : AddFuture(t, func)
  \/ ~futures.terminated /\ ControlWait
  \/ ~futures.terminated /\ ControlLoadStopping
  \/ ~futures.terminated /\ ControlJoinFinishedThreads
  \/ ~futures.terminated /\ ControlLaunchEnqueuedTasks
  \/ \E t \in Tasks : RunValueTask(t)
  \/ \E t \in Tasks : RunFutureTask(t)
  \/ \E t \in Tasks : RunFutureTaskThrows(t)
  \/ \E t \in Tasks : InnerCompletes(t)
  \/ \E t \in Tasks : ~futures.terminated /\ WorkFinished(t)

SpecFuture == Init /\ [][NextFuture]_vars

(***************************************************************************)
(* Specification of the harvest: ticketed certs added with empty and with  *)
(* non-empty seeds, removes, and seedless resets                           *)
(***************************************************************************)
HarvestConfigs == {Ticketed(CertAB, FALSE), Ticketed(CertWild, FALSE), Plain(CertMulti, FALSE)}
HarvestLists == {<<Ticketed(CertAB, TRUE)>>, <<Ticketed(CertAB, TRUE), Ticketed(CertWild, FALSE)>>}

NextHarvest ==
  \/ \E c \in HarvestConfigs, s \in {EmptySeeds, Seeds1} :
       AddSSLContextConfig(c, SeedsPtr(s))
  \/ \E k \in ReloadKeys : RemoveSSLContextConfig(k)
  \/ \E l \in HarvestLists : ResetSSLContextConfigs(l, NullSeeds)

SpecHarvest == Init /\ [][NextHarvest]_vars

(***************************************************************************)
(* Specification of lax adds: certs whose CN or whose subject alternative  *)
(* name is rejected, on strict and lax registries                          *)
(***************************************************************************)
CertBadCn == X509(N_bad, <<N_ab>>, NID_sha256WithRSAEncryption)
LaxConfigs ==
  {Plain(cert, d) : cert \in {CertBadSan, CertBadCn}, d \in BOOLEAN}
    \cup {Plain(CertAB, FALSE)}

NextLax ==
  \/ \E c \in LaxConfigs : AddSSLContextConfig(c, NullSeeds)
  \/ \E k \in FailKeys : RemoveSSLContextConfig(k)
  \/ Clear

SpecLax == Init /\ [][NextLax]_vars

(***************************************************************************)
(* Specification of the name checks: names with '*' at every position,     *)
(* the empty name and the bare dot, inserted by name into strict and lax   *)
(* registries                                                              *)
(***************************************************************************)
RawNames ==
  {N_ab, N_wb, N_star, N_bad, N_empty, <<".">>, <<"*", ".">>, <<"*", "a">>,
   <<"*", "a", "b">>, <<"*", ".", "*">>, <<"a", ".", "*">>}

NextNames ==
  \/ \E d \in BOOLEAN : AddSSLContextConfig(Plain(CertAB, d), NullSeeds)
  \/ \E dn \in RawNames, c \in CtxIds, d \in BOOLEAN :
       InsertSSLCtxByDomainName(dn, c, BEST_AVAILABLE, d)
  \/ Clear

SpecNames == Init /\ [][NextNames]_vars

(***************************************************************************)
(* Specification of adds with handshakes in progress: certs of one and of  *)
(* two names added one insertion at a time                                 *)
(***************************************************************************)
ConcAddConfigs == {Plain(CertAB, TRUE), Plain(CertMulti, FALSE), Plain(CertWild, FALSE)}
ConcAddNames == {NoServerName, ServerName(N_ab), ServerName(N_cb)}

NextConcAdd ==
  \/ \E c \in ConcAddConfigs : AddBegin(c, NullSeeds)
  \/ AddInsertName
  \/ AddFinish
  \/ ConnAccept
  \/ \E sn \in ConcAddNames : ConnClientHello(sn, Sha256Hello)
  \/ \E sn \in ConcAddNames : ConnClientHelloRace(sn, Sha256Hello)

SpecConcAdd == Init /\ [][NextConcAdd]_vars

(***************************************************************************)
(* Specification of removes: certs of one name, of two names and of two    *)
(* crypto-tier keys are added and their keys removed one after another     *)
(***************************************************************************)
RemoveConfigs ==
  {Plain(CertAB, TRUE), Plain(CertMulti, FALSE), Plain(CertSha1, FALSE), Plain(CertWild, FALSE)}

NextRemove ==
  \/ \E c \in RemoveConfigs : AddSSLContextConfig(c, NullSeeds)
  \/ \E k \in Keys : RemoveSSLContextConfig(k)
  \/ \E dn \in DomainNames : RemoveSSLContextConfigByDomainName(dn)

SpecRemove == Init /\ [][NextRemove]_vars

(***************************************************************************)
(* Properties                                                              *)
(***************************************************************************)
\* the index the manager points at
Live == idx[contexts_]

InDnMap(x, k) == k \in DOMAIN x.dnMap_
InDefaultKeys(x, k) == Find(x.defaultCtxKeys_, k) # 0

\* C1: no key is at the same time a key of dnMap_ and a member of
\* defaultCtxKeys_, in any index object; and after addSSLContextConfig or
\* insertSSLCtxByDomainName every key the call installed is in exactly one
\* of the two.
C1_KeysPartition ==
  /\ \A i \in IdxIds :
       idx[i] # NoIdx =>
         \A k \in DOMAIN idx[i].dnMap_ : ~InDefaultKeys(idx[i], k)
  /\ last.op \in {"add", "insertByName"} =>
       \A k \in last.keys : InDnMap(Live, k) # InDefaultKeys(Live, k)

\* a non-default add has taken a key named like the default's CN out of
\* defaultCtxKeys_ while another key of the default stays there
C1_Witness ==
  /\ last.op = "add" /\ last.ok
  /\ Len(Live.defaultCtxKeys_) > 0
  /\ \E k \in last.keys :
       InDnMap(Live, k) /\ k.dnString = Live.defaultCtxDomainName_

\* C2: every context that is a value of dnMap_ is an element of ctxs_, and
\* every element of ctxs_ is the value of some dnMap_ key.
C2_ContextsMatchDnMap ==
  {Live.dnMap_[k] : k \in DOMAIN Live.dnMap_} = Range(Live.ctxs_)

\* C3: a handshake without SNI on a registry with a default context records
\* AbsentHostname on the sink, hands no other context to the session and
\* returns SERVER_NAME_FOUND.
C3_NoSniStaysOnDefault ==
  (last.op = "handshake" /\ ~last.arg[1].present) =>
    /\ last.out.ret = SERVER_NAME_FOUND
    /\ last.out.switched = Null
    /\ ctx[defaultCtx_].cbStats => Find(last.out.events, <<"AbsentHostname">>) # 0

\* C4: when the requested name has an exact key at the requested tier (in
\* dnMap_ or in defaultCtxKeys_) and its suffix has a wildcard key at that
\* tier, the handshake is served by the exact key's context: the dnMap_
\* value when the exact key is in dnMap_, the default context otherwise.
C4_ExactBeatsWildcard ==
  last.op = "handshake" /\ last.arg[1].present =>
    LET key == SSLContextKey(last.arg[1].name, CertCryptoReq(last.arg[2]))
        suffixKey == SuffixKey(key)
    IN (/\ InDnMap(Live, key) \/ InDefaultKeys(Live, key)
        /\ FirstDot(key.dnString) # 0
        /\ suffixKey # key
        /\ InDnMap(Live, suffixKey) \/ InDefaultKeys(Live, suffixKey))
       => /\ last.out.ret = SERVER_NAME_FOUND
          /\ last.out.switched =
               IF InDnMap(Live, key) THEN Live.dnMap_[key] ELSE Null

\* C5: in strict mode a resetSSLContextConfigs that throws leaves the live
\* index object, every live context, contexts_ and defaultCtx_ as they were.
C5_FailedResetLeavesLive ==
  [][(last'.op = "reset" /\ ~last'.ok /\ strict_ /\ last' # last)
       => /\ idx' = idx
          /\ ctx' = ctx
          /\ contexts_' = contexts_
          /\ defaultCtx_' = defaultCtx_]_vars

\* a strict reset has failed on an invalid name while a default context and
\* its keys were live
C5_Witness ==
  /\ last.op = "reset" /\ ~last.ok /\ strict_
  /\ last.arg[1] = <<Plain(CertBadSan, FALSE)>>
  /\ defaultCtx_ # Null
  /\ Len(Live.defaultCtxKeys_) > 0

\* C6: a registry read or a handshake that overlaps a reset answers from a
\* complete pair: the read returns what the pre-reset (index, default) pair
\* or the post-reset pair gives for its key, and the handshake resolves
\* against the index of the default context it runs on.
C6_ReadsSeeCompletePair ==
  /\ last.op = "getSSLCtx" => last.out.ctx \in last.out.expect
  /\ last.op = "clientHello" => last.out.pair \in last.out.pairs

\* C7: once a seedless reset and a reload have both completed, every ticket
\* manager of the live index's contexts and of the default context holds
\* the seeds of the most recent reload.
C7_NewIndexHoldsLatestSeeds ==
  (/\ proc.rs.pc = "idle" /\ proc.rl.pc = "idle"
   /\ proc.done.reset /\ proc.done.reload)
  => \A c \in Range(Live.ctxs_) \cup ({defaultCtx_} \ {Null}) :
       ctx[c].tm.present => ctx[c].tm.seeds = proc.done.seeds

\* the contexts of a registry state that have a ticket manager
TicketCtxs(x, defaultCtx, ctxH) ==
  {c \in Range(x.ctxs_) \cup ({defaultCtx} \ {Null}) : ctxH[c].tm.present}

\* C8: after a seedless reset, every ticket manager of the new index's
\* contexts holds the seed triple the previous index's contexts held (the
\* previous contexts agreeing on one triple), also when the previous index
\* held only a default context.
C8_ResetKeepsSeeds ==
  [][(last'.op = "reset" /\ last'.ok /\ last'.arg[2].null /\ last' # last)
       => \A t \in {ctx[p].tm.seeds : p \in TicketCtxs(Live, defaultCtx_, ctx)} :
            (\A p \in TicketCtxs(Live, defaultCtx_, ctx) : ctx[p].tm.seeds = t)
            => \A c \in TicketCtxs(idx'[contexts_'], defaultCtx_', ctx') :
                 ctx'[c].tm.seeds = t]_vars

\* C9: after reloadTLSTicketKeys(old, current, new) on a registry in which
\* some context (default or not) has a ticket manager, getTicketKeys
\* returns (old, current, new).
C9_ReloadThenHarvest ==
  (last.op = "reload" /\ TicketCtxs(Live, defaultCtx_, ctx) # {})
  => getTicketKeys(TheWorld, contexts_) = last.arg

\* C10: removing a key that is in defaultCtxKeys_, by key or by the domain
\* name that forms it, throws and leaves dnMap_, defaultCtxKeys_ and ctxs_
\* as they were.
C10_RemoveDefaultFails ==
  [][((\/ last'.op = "removeByKey" /\ InDefaultKeys(Live, last'.arg)
       \/ last'.op = "removeByDomain"
            /\ InDefaultKeys(Live, DomainNameKey(last'.arg)))
      /\ last' # last)
       => /\ ~last'.ok /\ ~last'.fatal
          /\ idx' = idx
          /\ ctx' = ctx]_vars

\* removal by the wildcard domain name of the default has been refused
\* while the index also held a non-default context
C10_Witness ==
  /\ last.op = "removeByDomain" /\ ~last.ok /\ ~last.fatal
  /\ last.arg = N_wb
  /\ InDefaultKeys(Live, DomainNameKey(last.arg))
  /\ Len(Live.ctxs_) > 0

\* C11: when a non-default SHA-1 certificate W is added for a name no key
\* holds yet, the index lookup of the name returns W at SHA1_SIGNATURE and
\* at BEST_AVAILABLE; when a best-available certificate S is added later
\* for a name whose two keys both map to W, the lookup at SHA1_SIGNATURE
\* still returns W and the lookup at BEST_AVAILABLE returns S (for a
\* default S: the best-available key is a default key and S is the default
\* context).
C11_Sha1FallbackThenStronger ==
  [][(last'.op = "add" /\ last'.ok)
       => LET cfg == last'.arg[1]
              n == StoredName(cfg.cert.cn)
              shaKey == SSLContextKey(n, SHA1_SIGNATURE)
              bestKey == SSLContextKey(n, BEST_AVAILABLE)
              new == FreshCtx(ctx)
              before == idx[contexts_]
              after == idx'[contexts_']
              valid == ~IsStarCN(cfg.cert.cn) /\ ~ImplThrows(cfg.cert.cn)
              unregistered ==
                \A k \in {shaKey, bestKey} :
                  ~InDnMap(before, k) /\ ~InDefaultKeys(before, k)
              onlyW ==
                /\ InDnMap(before, shaKey) /\ InDnMap(before, bestKey)
                /\ before.dnMap_[shaKey] = before.dnMap_[bestKey]
                /\ CertCryptoOf(ctx[before.dnMap_[shaKey]].cert.sigAlg) = SHA1_SIGNATURE
          IN /\ (/\ valid /\ unregistered /\ ~cfg.isDefault
                 /\ CertCryptoOf(cfg.cert.sigAlg) = SHA1_SIGNATURE)
                => /\ getSSLCtx(after, shaKey) = new
                   /\ getSSLCtx(after, bestKey) = new
             /\ (/\ valid /\ onlyW
                 /\ CertCryptoOf(cfg.cert.sigAlg) = BEST_AVAILABLE)
                => /\ getSSLCtx(after, shaKey) = before.dnMap_[shaKey]
                   /\ IF cfg.isDefault
                        THEN /\ InDefaultKeys(after, bestKey)
                             /\ ~InDnMap(after, bestKey)
                             /\ defaultCtx_' = new
                        ELSE getSSLCtx(after, bestKey) = new]_vars

\* a best-available certificate has been added after a SHA-1 certificate
\* of the same name: the two tiers of the name map to different contexts
C11_Witness ==
  /\ last.op = "add" /\ last.ok
  /\ last.arg[1] = Plain(CertAB, FALSE)
  /\ InDnMap(Live, SSLContextKey(N_ab, SHA1_SIGNATURE))
  /\ InDnMap(Live, SSLContextKey(N_ab, BEST_AVAILABLE))
  /\ Live.dnMap_[SSLContextKey(N_ab, SHA1_SIGNATURE)]
       # Live.dnMap_[SSLContextKey(N_ab, BEST_AVAILABLE)]
  /\ ctx[Live.dnMap_[SSLContextKey(N_ab, SHA1_SIGNATURE)]].cert = CertSha1

\* the keys of a name at the best-available tier, and whether one is held
BestKey(dn) == SSLContextKey(dn, BEST_AVAILABLE)
Registered(x, dn) == InDnMap(x, BestKey(dn)) \/ InDefaultKeys(x, BestKey(dn))

\* C12: the wildcard lookup goes one label up. A handshake for a.b.c is
\* served by the context registered as *.b.c (the dnMap_ value of .b.c, or
\* the default context when .b.c is a default key); it finds nothing when
\* neither a.b.c nor *.b.c is registered, whatever is registered as *.c;
\* and a handshake for b.c finds nothing when neither b.c nor *.c is
\* registered, whatever is registered as *.b.c.
C12_WildcardOneLevel ==
  (last.op = "handshake" /\ last.arg[1].present) =>
    LET name == last.arg[1].name
        out == last.out
    IN /\ (/\ name = N_abc /\ ~InDnMap(Live, BestKey(N_abc))
           /\ InDnMap(Live, BestKey(N_dotbc)))
          => out.ret = SERVER_NAME_FOUND
             /\ out.switched = Live.dnMap_[BestKey(N_dotbc)]
       /\ (/\ name = N_abc /\ ~InDnMap(Live, BestKey(N_abc))
           /\ InDefaultKeys(Live, BestKey(N_dotbc)))
          => out.ret = SERVER_NAME_FOUND /\ out.switched = Null
       /\ (name = N_abc /\ ~Registered(Live, N_abc) /\ ~Registered(Live, N_dotbc))
          => out.ret = SERVER_NAME_NOT_FOUND /\ out.switched = Null
       /\ (name = N_bc /\ ~Registered(Live, N_bc) /\ ~Registered(Live, N_dotc))
          => out.ret = SERVER_NAME_NOT_FOUND /\ out.switched = Null

\* a handshake for a.b.c has been switched to the context of the *.b.c
\* certificate while a *.c certificate is the default
C12_Witness ==
  /\ last.op = "handshake" /\ last.arg[1] = ServerName(N_abc)
  /\ last.out.switched # Null
  /\ ctx[last.out.switched].cert = CertWbc
  /\ ctx[defaultCtx_].cert = CertWc

\* the configs of a list that are marked isDefault
DefaultsIn(ctxConfigs) == {i \in 1..Len(ctxConfigs) : ctxConfigs[i].isDefault}

\* C13: addSSLContextConfig of a default config while defaultCtx_ is set, and
\* resetSSLContextConfigs of a list with two default configs, throw; the
\* default slot keeps the context it held and that context is unchanged.
C13_OneDefault ==
  [][((\/ last'.op = "add" /\ last'.arg[1].isDefault /\ defaultCtx_ # Null
       \/ last'.op = "reset" /\ Cardinality(DefaultsIn(last'.arg[1])) > 1))
       => /\ ~last'.ok
          /\ defaultCtx_' = defaultCtx_
          /\ contexts_' = contexts_
          /\ defaultCtx_ # Null => ctx'[defaultCtx_] = ctx[defaultCtx_]]_vars

\* a default config has been refused while the slot held the context of
\* another certificate, which is still there
C13_Witness ==
  /\ last.op = "add" /\ ~last.ok
  /\ last.arg[1] = Plain(CertWild, TRUE)
  /\ defaultCtx_ # Null
  /\ ctx[defaultCtx_].cert = CertAB

\* C14: after a failed addSSLContextConfig on a strict registry none of the
\* keys of the cert's names is in dnMap_ or in defaultCtxKeys_.
C14_StrictFailLeavesNoKeys ==
  (last.op = "add" /\ ~last.ok /\ strict_) =>
    \A k \in KeysOfCert(last.arg[1].cert, FALSE) :
      ~InDnMap(Live, k) /\ ~InDefaultKeys(Live, k)

\* C15: when insert() throws inside addSSLContextConfig the call fails and
\* the context it built is dropped: afterwards that context is no value of
\* dnMap_, no element of ctxs_ and not the manager's default context.
C15_FailedInsertDropsContext ==
  [][(/\ last'.op = "add"
      /\ HasFreeCtx(ctx)
      /\ ~(last'.arg[1].isDefault /\ defaultCtx_ # Null)
      /\ ~insert(Live, FreshCtx(ctx), last'.arg[1].cert, last'.arg[1].isDefault).ok)
     => /\ ~last'.ok
        /\ \A k \in DOMAIN idx'[contexts_'].dnMap_ :
             idx'[contexts_'].dnMap_[k] # FreshCtx(ctx)
        /\ FreshCtx(ctx) \notin Range(idx'[contexts_'].ctxs_)
        /\ defaultCtx_' # FreshCtx(ctx)]_vars

\* the certificate a lookup returns, Null when it finds no context
CertFound(ctxH, c) == IF c = Null THEN Null ELSE ctxH[c].cert

\* C16: a second addSSLContextConfig of the config just added leaves the
\* index as the first left it: the same keys in dnMap_ and defaultCtxKeys_,
\* as many elements in ctxs_, and for every key a lookup that finds the
\* same certificate.
C16_AddTwiceIsAddOnce ==
  [][(/\ last.op = "add" /\ last.ok
      /\ last'.op = "add" /\ last'.arg = last.arg)
     => /\ DOMAIN idx'[contexts_'].dnMap_ = DOMAIN Live.dnMap_
        /\ Range(idx'[contexts_'].defaultCtxKeys_) = Range(Live.defaultCtxKeys_)
        /\ Len(idx'[contexts_'].ctxs_) = Len(Live.ctxs_)
        /\ \A k \in Keys :
             CertFound(ctx', getSSLCtx(idx'[contexts_'], k))
               = CertFound(ctx, getSSLCtx(Live, k))]_vars

\* the hashes that are SHA256 or stronger
AtLeastSHA256 == {"SHA256", "SHA384", "SHA512"}

\* C17: the tier a handshake requests is BEST_AVAILABLE when there is no
\* ClientHelloInfo, when some signature algorithm of the hello has a hash
\* that is SHA256 or stronger, or when the hello carries the SERVER_NAME
\* extension, and SHA1_SIGNATURE in every other case.
C17_TierFromHello ==
  last.op = "handshake" =>
    LET clientInfo == last.arg[2]
        best ==
          \/ ~clientInfo.present
          \/ \E i \in 1..Len(clientInfo.clientHelloSigAlgs_) :
               clientInfo.clientHelloSigAlgs_[i][1] \in AtLeastSHA256
          \/ Find(clientInfo.clientHelloExtensions_, "SERVER_NAME") # 0
    IN CertCryptoReq(clientInfo) = IF best THEN BEST_AVAILABLE ELSE SHA1_SIGNATURE

\* the context dnMap_ holds under a key, Null when it holds none
ByName(x, k) == IF InDnMap(x, k) THEN x.dnMap_[k] ELSE Null

\* C18: the read accessors of the manager resolve defaultCtxKeys_ to
\* defaultCtx_. getSSLCtxByExactDomain(k) returns defaultCtx_ when k is in
\* defaultCtxKeys_ and the dnMap_ entry of k otherwise; getSSLCtxBySuffix(k)
\* does the same with the key made of k's name from its first dot on, and
\* finds nothing for a name without a dot; getSSLCtx(k) returns defaultCtx_
\* whenever k or that suffix key is in defaultCtxKeys_.
C18_ReadsResolveDefault ==
  last.op = "read" =>
    LET k == last.arg[2]
        dotted == FirstDot(k.dnString) # 0
    IN /\ last.arg[1] = "getSSLCtxByExactDomain" =>
            last.out = IF InDefaultKeys(Live, k) THEN defaultCtx_
                       ELSE ByName(Live, k)
       /\ last.arg[1] = "getSSLCtxBySuffix" =>
            last.out = IF ~dotted THEN Null
                       ELSE IF InDefaultKeys(Live, SuffixKey(k)) THEN defaultCtx_
                       ELSE ByName(Live, SuffixKey(k))
       /\ (/\ last.arg[1] = "getSSLCtx"
           /\ \/ InDefaultKeys(Live, k)
              \/ dotted /\ InDefaultKeys(Live, SuffixKey(k)))
          => last.out = defaultCtx_

\* getSSLCtxBySuffix for c.b has returned the default context, whose
\* certificate *.b put .b into defaultCtxKeys_, while dnMap_ holds another
\* context
C18_Witness ==
  /\ last.op = "read"
  /\ last.arg = <<"getSSLCtxBySuffix", SSLContextKey(N_cb, BEST_AVAILABLE)>>
  /\ last.out # Null /\ last.out = defaultCtx_
  /\ ctx[defaultCtx_].cert = CertWild
  /\ DOMAIN Live.dnMap_ # {}

\* the contexts a lookup or a handshake on the registry can return: the
\* values of dnMap_ and the default context
Returnable == {Live.dnMap_[k] : k \in DOMAIN Live.dnMap_} \cup ({defaultCtx_} \ {Null})

\* C19: after reloadTLSTicketKeys(old, current, new), whatever adds and
\* removes came before, every context with a ticket manager that a lookup
\* or a handshake can return, the default context included, holds the
\* triple (old, current, new).
C19_ReloadReachesReturnable ==
  last.op = "reload" =>
    \A c \in Returnable : ctx[c].tm.present => ctx[c].tm.seeds = last.arg

C21_AddFutureFulfils ==
  \A t \in Tasks :
    LET s == futures.slot[t]
    IN s.added =>
         /\ ~s.ran => s.promise = Unfulfilled
         /\ s.sets <= 1
         /\ (s.ran /\ s.func.overload = "value") => s.promise = s.func.outcome
         /\ (s.ran /\ s.func.outcome.kind = "exception") => s.promise = s.func.outcome
         /\ (s.ran /\ s.func.overload = "future" /\ s.func.outcome.kind = "value") =>
              s.promise = IF s.inner = "done" THEN s.func.inner ELSE Unfulfilled

\* C22: insertIntoDnMap follows its decision table. insertSSLCtxByDomainName
\* of a context C that is not the default inserts the name's key at the
\* cert's tier with overwrite, and for a SHA-1 cert the best-available key
\* without. With overwrite: a key in neither table, a key of dnMap_ and a
\* key of defaultCtxKeys_ all end as dnMap_[k] = C, the last one leaving
\* defaultCtxKeys_. Without overwrite: a key in neither table gets
\* dnMap_[k] = C, a key of dnMap_ keeps its value, a key of defaultCtxKeys_
\* stays there and dnMap_ gets no entry for it. No other key changes.
C22_InsertMapTable ==
  [][(last'.op = "insertByName" /\ last'.ok /\ ~last'.arg[4]) =>
       LET C == last'.arg[2]
           after == idx'[contexts_']
           k1 == SSLContextKey(StoredName(last'.arg[1]), last'.arg[3])
           k2 == BestKey(StoredName(last'.arg[1]))
       IN /\ ByName(after, k1) = C /\ ~InDefaultKeys(after, k1)
          /\ k2 # k1 =>
               /\ (~InDnMap(Live, k2) /\ ~InDefaultKeys(Live, k2))
                    => ByName(after, k2) = C /\ ~InDefaultKeys(after, k2)
               /\ InDnMap(Live, k2)
                    => ByName(after, k2) = Live.dnMap_[k2] /\ ~InDefaultKeys(after, k2)
               /\ InDefaultKeys(Live, k2)
                    => InDefaultKeys(after, k2) /\ ~InDnMap(after, k2)
          /\ \A k \in Keys \ {k1, k2} :
               /\ ByName(after, k) = ByName(Live, k)
               /\ InDefaultKeys(after, k) = InDefaultKeys(Live, k)]_vars

\* a SHA-1 context has been inserted under a name whose best-available key
\* is a default key: it holds the SHA-1 key, the other key is still default
C22_Witness ==
  /\ last.op = "insertByName" /\ last.ok /\ ~last.arg[4]
  /\ last.arg[3] = SHA1_SIGNATURE
  /\ Live.dnMap_ = (SSLContextKey(N_ab, SHA1_SIGNATURE) :> last.arg[2])
  /\ InDefaultKeys(Live, BestKey(N_ab))

\* C23: insertIntoDefaultKeys follows the mirror table. With overwrite: a
\* key in neither table is added to defaultCtxKeys_, a key of dnMap_ is
\* erased there and added, a key of defaultCtxKeys_ stays. Without
\* overwrite: a key in neither table is added, a key of dnMap_ stays in
\* dnMap_ with its value, a key of defaultCtxKeys_ stays. defaultCtxKeys_
\* never holds a key twice, and no other key changes.
C23_InsertDefaultTable ==
  [][(last'.op = "insertByName" /\ last'.ok /\ last'.arg[4]) =>
       LET after == idx'[contexts_']
           k1 == SSLContextKey(StoredName(last'.arg[1]), last'.arg[3])
           k2 == BestKey(StoredName(last'.arg[1]))
       IN /\ InDefaultKeys(after, k1) /\ ~InDnMap(after, k1)
          /\ k2 # k1 =>
               /\ (~InDnMap(Live, k2) /\ ~InDefaultKeys(Live, k2))
                    => InDefaultKeys(after, k2) /\ ~InDnMap(after, k2)
               /\ InDnMap(Live, k2)
                    => ByName(after, k2) = Live.dnMap_[k2] /\ ~InDefaultKeys(after, k2)
               /\ InDefaultKeys(Live, k2)
                    => InDefaultKeys(after, k2) /\ ~InDnMap(after, k2)
          /\ \A i, j \in 1..Len(after.defaultCtxKeys_) :
               after.defaultCtxKeys_[i] = after.defaultCtxKeys_[j] => i = j
          /\ \A k \in Keys \ {k1, k2} :
               /\ ByName(after, k) = ByName(Live, k)
               /\ InDefaultKeys(after, k) = InDefaultKeys(Live, k)]_vars

\* a SHA-1 name has been inserted as default while its best-available key
\* belongs to a context of dnMap_: that key is still there
C23_Witness ==
  /\ last.op = "insertByName" /\ last.ok /\ last.arg[4]
  /\ last.arg[3] = SHA1_SIGNATURE
  /\ InDnMap(Live, BestKey(N_ab))
  /\ Live.defaultCtxKeys_ = <<SSLContextKey(N_ab, SHA1_SIGNATURE)>>

\* the name a handshake is dispatched on: the server name of the hello, or
\* the default's domain name when the hello has none
DispatchName(sn) == IF sn.present THEN sn.name ELSE Live.defaultCtxDomainName_

\* the keys a name can match at a tier: the name and, for a name with a
\* dot, the name from its first dot on
MatchKeys(dn, tier) ==
  {SSLContextKey(dn, tier)}
    \cup (IF FirstDot(dn) # 0 THEN {SuffixKey(SSLContextKey(dn, tier))} ELSE {})

Matches(dn, tier) ==
  \E k \in MatchKeys(dn, tier) : InDnMap(Live, k) \/ InDefaultKeys(Live, k)

\* C24: a handshake returns SERVER_NAME_FOUND exactly when the name or its
\* suffix is a key of dnMap_ or of defaultCtxKeys_ at the requested tier,
\* or, for a SHA-1 request that matched nothing, at the best-available
\* tier. The session is switched only to a dnMap_ value of a matching key
\* of the tier served, and a match at the requested tier is served before a
\* match at the best-available tier.
C24_DispatchFound ==
  last.op = "handshake" =>
    LET dn == DispatchName(last.arg[1])
        req == CertCryptoReq(last.arg[2])
        served == IF Matches(dn, req) THEN req ELSE BEST_AVAILABLE
        found == Matches(dn, req) \/ (req = SHA1_SIGNATURE /\ Matches(dn, BEST_AVAILABLE))
    IN /\ (last.out.ret = SERVER_NAME_FOUND) = found
       /\ ~found => last.out.switched = Null
       /\ last.out.switched # Null =>
            \E k \in MatchKeys(dn, served) :
              InDnMap(Live, k) /\ Live.dnMap_[k] = last.out.switched
       /\ (found /\ \A k \in MatchKeys(dn, served) : ~InDnMap(Live, k))
            => last.out.switched = Null

\* a SHA-1 request for a.b has been served by the SHA-1 context while the
\* best-available key of a.b is a key of the default
C24_Witness ==
  /\ last.op = "handshake" /\ last.arg = <<ServerName(N_ab), Sha1Hello>>
  /\ last.out.switched # Null
  /\ last.out.switched = ByName(Live, SSLContextKey(N_ab, SHA1_SIGNATURE))
  /\ InDefaultKeys(Live, BestKey(N_ab))

\* the recordCertCrypto calls among the stats calls of a dispatch
CryptoPairs(events) ==
  {i \in 1..Len(events) :
     \E r \in CertCrypto, s \in CertCrypto : events[i] = <<"CertCrypto", r, s>>}

\* the dispatch recorded exactly one crypto pair, (requested, tier of the key
\* that matched)
OnePairServed ==
  LET dn == DispatchName(last.arg[1])
      req == CertCryptoReq(last.arg[2])
      served == IF Matches(dn, req) THEN req ELSE BEST_AVAILABLE
  IN /\ Cardinality(CryptoPairs(last.out.events)) = 1
     /\ \E i \in CryptoPairs(last.out.events) :
          last.out.events[i] = <<"CertCrypto", req, served>>

\* C25 (as stated): with a stats sink attached, every dispatch that returns
\* SERVER_NAME_FOUND records Match and one (requested, served) crypto pair,
\* and a dispatch that returns SERVER_NAME_NOT_FOUND records NotMatch only
\* when the hello carried a server name and records no crypto pair
C25_FoundRecordsMatch ==
  (/\ last.op = "handshake"
   /\ ctx[defaultCtx_].cbStats) =>
    IF last.out.ret = SERVER_NAME_FOUND
      THEN /\ Find(last.out.events, <<"Match">>) # 0
           /\ OnePairServed
      ELSE /\ Find(last.out.events, <<"NotMatch">>) # 0 => last.arg[1].present
           /\ CryptoPairs(last.out.events) = {}

\* C25 (amended): with a stats sink attached, a dispatch that returns
\* SERVER_NAME_FOUND records one (requested, served) crypto pair, and records
\* Match exactly when the hello carried a server name; a dispatch that
\* returns SERVER_NAME_NOT_FOUND records NotMatch only when the hello carried
\* a server name and records no crypto pair
C25_FoundRecordsMatchWithSni ==
  (/\ last.op = "handshake"
   /\ ctx[defaultCtx_].cbStats) =>
    IF last.out.ret = SERVER_NAME_FOUND
      THEN /\ (Find(last.out.events, <<"Match">>) # 0) = last.arg[1].present
           /\ Find(last.out.events, <<"NotMatch">>) = 0
           /\ OnePairServed
      ELSE /\ Find(last.out.events, <<"NotMatch">>) # 0 => last.arg[1].present
           /\ Find(last.out.events, <<"Match">>) = 0
           /\ CryptoPairs(last.out.events) = {}

\* a handshake without a server name has been answered SERVER_NAME_FOUND
\* through the default's domain name, with the stats sink attached
C25_Witness ==
  /\ last.op = "handshake"
  /\ ctx[defaultCtx_].cbStats
  /\ ~last.arg[1].present
  /\ last.out.ret = SERVER_NAME_FOUND
  /\ Find(last.out.events, <<"AbsentHostname">>) # 0
  /\ OnePairServed

\* the first non-empty seed triple among the ticket managers of ctxs[i..],
\* the empty triple when there is none
RECURSIVE FirstNonEmptySeeds(_, _, _)
FirstNonEmptySeeds(w, ctxs, i) ==
  IF i > Len(ctxs) THEN EmptySeeds
  ELSE IF w.ctx[ctxs[i]].tm.present /\ w.ctx[ctxs[i]].tm.seeds # EmptySeeds
    THEN w.ctx[ctxs[i]].tm.seeds
  ELSE FirstNonEmptySeeds(w, ctxs, i + 1)

\* C26: getTicketKeys returns the first non-empty (old, current, new) triple
\* among the ticket managers of ctxs_, in insertion order; a ticket manager
\* with empty seeds earlier in ctxs_ does not hide a later non-empty triple
C26_HarvestFirstNonEmpty ==
  getTicketKeys(TheWorld, contexts_) = FirstNonEmptySeeds(TheWorld, Live.ctxs_, 1)

\* C27: on a lax registry, an add of a cert one of whose names (CN or
\* subject alternative name) is rejected by the name checks does not fail
\* (the CN not being "*" and the default slot being free for a default
\* config): the rejected name gets no key, every other name of the cert gets
\* its key, and a non-default context is appended to ctxs_
C27_LaxSkipsFailingName ==
  [][(/\ last'.op = "add"
      /\ ~strict_
      /\ ~IsStarCN(last'.arg[1].cert.cn)
      /\ ~(last'.arg[1].isDefault /\ defaultCtx_ # Null)
      /\ \E n \in Range(NamesOf(last'.arg[1].cert)) : ImplThrows(n))
     => LET cfg == last'.arg[1]
            x == idx'[contexts_']
            crypto == CertCryptoOf(cfg.cert.sigAlg)
            keysAfter == DOMAIN x.dnMap_ \cup Range(x.defaultCtxKeys_)
        IN /\ last'.ok
           /\ \A n \in Range(NamesOf(cfg.cert)) :
                IF ImplThrows(n)
                  THEN \A k \in keysAfter : k.dnString \notin {n, StoredName(n)}
                ELSE IF cfg.isDefault
                  THEN InDefaultKeys(x, SSLContextKey(StoredName(n), crypto))
                ELSE /\ InDnMap(x, SSLContextKey(StoredName(n), crypto))
                     /\ x.dnMap_[SSLContextKey(StoredName(n), crypto)]
                          = x.ctxs_[Len(x.ctxs_)]
           /\ ~cfg.isDefault =>
                /\ Len(x.ctxs_) = Len(Live.ctxs_) + 1
                /\ SubSeq(x.ctxs_, 1, Len(Live.ctxs_)) = Live.ctxs_
                /\ IsFreeCtx(ctx, x.ctxs_[Len(x.ctxs_)])
                /\ ctx'[x.ctxs_[Len(x.ctxs_)]].cert = cfg.cert]_vars

\* a lax add of a non-default cert with the rejected CN a* and the subject
\* alternative name a.b has succeeded and registered a.b alone
C27_Witness ==
  /\ last.op = "add" /\ last.ok /\ ~strict_
  /\ last.arg[1] = Plain(CertBadCn, FALSE)
  /\ InDnMap(Live, BestKey(N_ab))
  /\ ctx[Live.dnMap_[BestKey(N_ab)]].cert = CertBadCn
  /\ Live.ctxs_ # <<>>
  /\ \A k \in DOMAIN Live.dnMap_ : k.dnString # N_bad

\* the name has a '*' that is not the first character of a leading "*."
StarElsewhere(dn) ==
  \E i \in 1..Len(dn) :
    dn[i] = "*" /\ ~(i = 1 /\ Len(dn) >= 2 /\ dn[2] = ".")

\* "*." followed by a non-empty suffix
WildcardForm(dn) == Len(dn) > 2 /\ dn[1] = "*" /\ dn[2] = "."

AllKeys(x) == DOMAIN x.dnMap_ \cup Range(x.defaultCtxKeys_)

\* C28: an insert by name of a name with a '*' anywhere other than in a
\* leading "*." is rejected (thrown on a strict registry, logged on a lax
\* one) and leaves the index as it was; an accepted name "*.suffix" is
\* stored under ".suffix" and not under the raw name
C28_StarOnlyAsPrefix ==
  [][last'.op = "insertByName"
     => LET dn == last'.arg[1]
            x == idx'[contexts_']
        IN /\ StarElsewhere(dn) =>
                /\ x = Live
                /\ strict_ => ~last'.ok
                /\ \A k \in AllKeys(x) : k.dnString # dn
           /\ (WildcardForm(dn) /\ ~StarElsewhere(dn)) =>
                /\ last'.ok
                /\ SSLContextKey(Tail(dn), last'.arg[3]) \in AllKeys(x)
                /\ \A k \in AllKeys(x) : k.dnString # dn]_vars

\* *.b has been inserted by name and is stored under .b, and no key holds a
\* name with a '*'
C28_Witness ==
  /\ last.op = "insertByName" /\ last.ok
  /\ last.arg[1] = N_wb
  /\ SSLContextKey(N_dotb, last.arg[3]) \in AllKeys(Live)
  /\ \A k \in AllKeys(Live) : ~StarElsewhere(k.dnString) /\ ~WildcardForm(k.dnString)

\* C29: an insert by name of the empty name or of a name that is "." after
\* the leading '*' is skipped is rejected and adds no key to dnMap_ or
\* defaultCtxKeys_
C29_EmptyDomainRejected ==
  [][(/\ last'.op = "insertByName"
      /\ StoredName(last'.arg[1]) \in {<<>>, <<".">>})
     => /\ idx'[contexts_'] = Live
        /\ strict_ => ~last'.ok]_vars

\* the keys of dnMap_ that map to the context an add in progress built
AddedKeys(x, ad) == {k \in DOMAIN x.dnMap_ : x.dnMap_[k] = ad.sslCtx}

\* C30: addSSLContextConfig never writes an index object that the callback
\* of an accepted connection reads, and a ClientHello that arrives while a
\* non-default add is in progress finds in the index it reads none or all of
\* the added cert's keys
C30_WritersNeverMutateReadIndex ==
  [][proc.hs.pc = "accepted"
     => /\ proc'.hs.pc = "accepted"
           => idx'[ctx[proc.hs.ctx].cbContexts] = idx[ctx[proc.hs.ctx].cbContexts]
        /\ (/\ proc'.hs.pc = "idle"
            /\ proc.ad.pc = "insert"
            /\ ~proc.ad.ctxConfig.isDefault)
           => AddedKeys(idx[ctx[proc.hs.ctx].cbContexts], proc.ad)
                \in {{}, KeysOfCert(proc.ad.ctxConfig.cert, strict_)}]_vars

\* C31: no removeSSLContextConfig or removeSSLContextConfigByDomainName
\* reached by adds and removes fails the CHECK of line 421: the context of a
\* dnMap_ key being removed is in ctxs_
C31_RemoveNeverFatal ==
  last.op \in {"removeByKey", "removeByDomain"} => ~last.fatal

\* C32: after a remove that dropped a non-default context, no key of dnMap_
\* maps to that context any more
C32_RemovedContextUnreachable ==
  [][(last'.op \in {"removeByKey", "removeByDomain"} /\ last'.ok)
     => \A k \in DOMAIN Live.dnMap_ \ DOMAIN idx'[contexts_'].dnMap_ :
          \A j \in DOMAIN idx'[contexts_'].dnMap_ :
            idx'[contexts_'].dnMap_[j] # Live.dnMap_[k]]_vars

\* C33: getSSLCtx(k) of the manager returns the context a handshake
\* requesting k is served with: the context the callback switched to, the
\* default context when the callback found the name and switched to nothing,
\* none when the callback found nothing
C33_AccessorAgreesWithDispatch ==
  (last.op = "handshake" /\ last.arg[1].present) =>
    Mgr_getSSLCtx(TheWorld, contexts_, defaultCtx_,
                  SSLContextKey(last.arg[1].name, CertCryptoReq(last.arg[2])))
      = IF last.out.ret # SERVER_NAME_FOUND THEN Null
        ELSE IF last.out.switched # Null THEN last.out.switched
        ELSE defaultCtx_

\* C34: after clear() the registry is as a freshly constructed one: dnMap_,
\* defaultCtxKeys_ and ctxs_ are empty, the default domain name and the
\* default context are unset (so that a default config can be added)
C34_ClearIsFresh ==
  last.op = "clear" =>
    /\ Live = NewSslContexts(strict_)
    /\ defaultCtx_ = Null

====
